---- MODULE Spec2Model ----
(***************************************************************************)
(* Model of the interactive screenshot overlay (ui/overlay.py, with        *)
(* ui/magnifier.py), the window registry it consumes (wayfire.py), and the *)
(* single-instance lock and double-tap record (instance.py, cli.py).       *)
(*                                                                         *)
(* Pointer coordinates are Python floats in the source.  They are modelled *)
(* in fixed point: a coordinate value v stands for v / Scale pixels, so    *)
(* int() is a real truncation and not the identity.  Window geometry and   *)
(* the snapshot size are whole pixels, as in the source.                   *)
(***************************************************************************)
EXTENDS Integers, Sequences, FiniteSets, TLC

\* ------------------------------------------------------------------ bounds
Scale == 2
SnapW == 6
SnapH == 6
MaxSignals == 2
SessionSignals == 1
MaxKeyMoves == 1
MaxViews == 3
NumProcs == 3
MaxInodes == 2
MaxClock == 1500

\* ------------------------------------------------------- program constants
DragThreshold == 5
SelfAppId == "screenshot-tool"
TopLevel == "toplevel"
WorkspaceLayer == "workspace"

\* ------------------------------------------------------------ Optional[T]
None == << >>
Some(v) == << v >>
Val(o) == o[1]

Min(a, b) == IF a < b THEN a ELSE b
Max(a, b) == IF a > b THEN a ELSE b
Abs(a) == IF a < 0 THEN 0 - a ELSE a

\* float(n) of a whole pixel count n
ToFloat(n) == n * Scale
\* int(v): truncation toward zero of the float v
ToInt(v) == IF v >= 0 THEN v \div Scale ELSE 0 - ((0 - v) \div Scale)

\* ------------------------------------------------ wayfire.py: the registry
\* A view as returned by sock.list_views().  readable = FALSE stands for an
\* entry whose fields cannot be read (view.get raises).
View(id, app, mapped, minimized, type, layer, x, y, w, h, ts, readable) ==
    [id |-> id, app_id |-> app, mapped |-> mapped, minimized |-> minimized,
     type |-> type, layer |-> layer, x |-> x, y |-> y, width |-> w,
     height |-> h, ts |-> ts, readable |-> readable]

\* variant: minimized views are listed too
ViewAcceptedMinimized(v) ==
    /\ v.mapped
    /\ v.type = TopLevel
    /\ v.layer = WorkspaceLayer
    /\ v.app_id # SelfAppId
    /\ v.app_id # ""
    /\ v.width > 0
    /\ v.height > 0

\* get_window_geometries: the test a view passes to be listed
ViewAccepted(v) ==
    /\ v.mapped
    /\ ~v.minimized
    /\ v.type = TopLevel
    /\ v.layer = WorkspaceLayer
    /\ v.app_id # SelfAppId
    /\ v.app_id # ""
    /\ v.width > 0
    /\ v.height > 0

WindowOf(v) ==
    [id |-> v.id, app_id |-> v.app_id, x |-> v.x, y |-> v.y,
     width |-> v.width, height |-> v.height,
     focus_timestamp |-> v.ts, z_order |-> None]

\* the for-loop of get_window_geometries over views[i..]: acc is the list
\* built so far; the result says whether a view raised
RECURSIVE CollectWindows(_, _, _)
CollectWindows(vs, i, acc) ==
    IF i > Len(vs) THEN [raised |-> FALSE, windows |-> acc]
    ELSE IF ~vs[i].readable THEN [raised |-> TRUE, windows |-> acc]
    ELSE CollectWindows(vs, i + 1,
            IF ViewAccepted(vs[i]) THEN Append(acc, WindowOf(vs[i])) ELSE acc)

\* list.sort(key=focus_timestamp, reverse=True): stable, descending
RECURSIVE InsertDesc(_, _)
InsertDesc(w, sorted) ==
    IF sorted = << >> THEN << w >>
    ELSE IF Head(sorted).focus_timestamp >= w.focus_timestamp
         THEN << Head(sorted) >> \o InsertDesc(w, Tail(sorted))
         ELSE << w >> \o sorted

RECURSIVE SortByFocusDesc(_)
SortByFocusDesc(ws) ==
    IF ws = << >> THEN << >>
    ELSE InsertDesc(ws[Len(ws)], SortByFocusDesc(SubSeq(ws, 1, Len(ws) - 1)))

AssignZOrder(ws) ==
    [i \in 1..Len(ws) |-> [ws[i] EXCEPT !.z_order = Some(i - 1)]]

\* ipc: "ok", "no_socket" (_get_socket returns None), "list_fails"
\* (sock.list_views raises)
get_window_geometries(ipc, vs) ==
    IF ipc = "no_socket" THEN << >>
    ELSE IF ipc = "list_fails" THEN << >>
    ELSE LET c == CollectWindows(vs, 1, << >>)
         IN  IF c.raised THEN c.windows
             ELSE AssignZOrder(SortByFocusDesc(c.windows))

\* ------------------------------------------------- overlay.py: hit-testing
\* variant: the far edges belong to the window
ContainsClosed(w, x, y) ==
    /\ ToFloat(w.x) <= x
    /\ x <= ToFloat(w.x + w.width)
    /\ ToFloat(w.y) <= y
    /\ y <= ToFloat(w.y + w.height)

\* _find_window_at: the containment test of one window
Contains(w, x, y) ==
    /\ ToFloat(w.x) <= x
    /\ x < ToFloat(w.x + w.width)
    /\ ToFloat(w.y) <= y
    /\ y < ToFloat(w.y + w.height)

RECURSIVE FirstContaining(_, _, _, _)
FirstContaining(ws, i, x, y) ==
    IF i > Len(ws) THEN None
    ELSE IF Contains(ws[i], x, y) THEN Some(ws[i])
    ELSE FirstContaining(ws, i + 1, x, y)

find_window_at(ws, x, y) == FirstContaining(ws, 1, x, y)

\* ------------------------------------------------------------------ state
VARIABLES
    phase,             \* run_interactive: "start", "main", "returned", "raised";
                       \* "killed": the process was terminated by a signal
    views,             \* what the compositor listed at construction
    windows,           \* self.windows
    img_width,         \* self.img_width  (pixels)
    img_height,        \* self.img_height (pixels)
    current_x,         \* self.current_x
    current_y,         \* self.current_y
    selecting,         \* self.selecting
    start_x,           \* self.start_x : Optional
    start_y,           \* self.start_y : Optional
    hovered_window,    \* self.hovered_window : Optional
    overlay_instance,  \* module global _overlay_instance is not None
    loop_running,      \* Gtk main loop has not been asked to quit
    sig_pending,       \* a SIGUSR1 is recorded by the GLib signal source
    signals_sent,      \* SIGUSR1 sent to this process so far
    idle_queue,        \* take_fullscreen_now callbacks added by GLib.idle_add
    pending_dispatch,  \* idle callbacks left to run in the current iteration
    actions,           \* terminal actions executed, in order
    save_calls,        \* invocations of output.save
    destroy_calls,     \* invocations of self.destroy()
    quit_calls,        \* invocations of Gtk.main_quit()
    handler_raised,    \* the last handler ended with an exception
    key_moves,         \* arrow-key presses handled so far
    temp_files,        \* temporary files of the session that exist on disk
    cursor_hidden,     \* hide_cursor() was called and show_cursor() not since
    window_shown,      \* the overlay window is on screen (show_all .. hide)
    redraw_queued,     \* a draw is requested and _on_draw has not run since
    frame,             \* what the last _on_draw put on screen : Optional
    tap_file,          \* content of config.double_tap_file : Optional ms
    tap_clock,         \* time.time() in ms
    tap_prev,          \* the last invocation that ran check_double_tap
    tap_result,        \* what the last invocation of main did with the record
    lock_path,         \* inode config.lock_file names, 0 when it does not exist
    inode_count,       \* inodes created for the lock file so far
    flock_owner,       \* inode -> process holding its flock, 0 when free
    file_pid,          \* inode -> pid written in the file, 0 when empty
    lpc,               \* process -> position in handle_interactive / main
    lfd,               \* process -> inode of its self._lock_fd, 0 when None
    events,            \* operation events emitted by the CLI, in order
    op_count,          \* operation ids handed out by _start_operation
    cli_exit,          \* how the last CLI capture path ended
    last_capture,      \* how the last call of a capture function ended
    config_call        \* the last load_config: its sources and its result

\* self.end_x and self.end_y are assigned from current_x and current_y at the
\* top of _on_button_release and read nowhere else; they are the names end_x
\* and end_y local to on_button_release below.

vars == << phase, views, windows, img_width, img_height, current_x, current_y,
           selecting, start_x, start_y, hovered_window, overlay_instance,
           loop_running, sig_pending, signals_sent, idle_queue,
           pending_dispatch, actions, save_calls, destroy_calls, quit_calls,
           handler_raised, key_moves, temp_files, cursor_hidden,
           window_shown, redraw_queued, frame, tap_file, tap_clock, tap_prev,
           tap_result, lock_path, inode_count, flock_owner, file_pid, lpc,
           lfd, events, op_count, cli_exit, last_capture, config_call >>

\* one overlay process
overlay_vars == << phase, views, windows, img_width, img_height, current_x,
                   current_y, selecting, start_x, start_y, hovered_window,
                   overlay_instance, loop_running, sig_pending, signals_sent,
                   idle_queue, pending_dispatch, actions, save_calls,
                   destroy_calls, quit_calls, handler_raised, key_moves,
                   temp_files, cursor_hidden, window_shown, redraw_queued >>
\* the double-tap record
tap_vars == << tap_file, tap_clock, tap_prev, tap_result >>
\* the lock file and the processes that use it
lock_vars == << lock_path, inode_count, flock_owner, file_pid, lpc, lfd >>
\* the non-interactive capture paths of the CLI
cli_vars == << events, op_count, cli_exit, last_capture >>
\* configuration loading
config_vars == << config_call >>
\* what the overlay's handlers and callbacks never touch
aux_vars == << frame, tap_vars, lock_vars, cli_vars, config_vars >>

pointer_vars == << current_x, current_y >>
selection_vars == << selecting, start_x, start_y >>
session_vars == << phase, views, windows, img_width, img_height,
                   cursor_hidden >>
signal_vars == << sig_pending, signals_sent, idle_queue, pending_dispatch >>
exit_vars == << overlay_instance, loop_running, actions, save_calls,
                destroy_calls, quit_calls, temp_files, window_shown >>

\* ---------------------------------------------------------- terminal actions
WindowAction(app, by) ==
    [kind |-> "CaptureWindow", app_id |-> app, x |-> 0, y |-> 0, w |-> 0,
     h |-> 0, by |-> by]
RegionAction(x, y, w, h, by) ==
    [kind |-> "CaptureRegion", app_id |-> "", x |-> x, y |-> y, w |-> w,
     h |-> h, by |-> by]
CancelAction(by) ==
    [kind |-> "Cancel", app_id |-> "", x |-> 0, y |-> 0, w |-> 0, h |-> 0,
     by |-> by]

\* the names of the session's temporary files
SnapshotFile == "snapshot"
WindowFile == "window"
CropFile == "crop"

\* _cleanup_and_exit, reached with the temporary files `files` on disk
cleanup_and_exit(files) ==
    /\ overlay_instance' = FALSE
    /\ temp_files' = files \ {SnapshotFile}
    /\ window_shown' = FALSE
    /\ destroy_calls' = destroy_calls + 1
    /\ quit_calls' = quit_calls + 1
    /\ loop_running' = FALSE

\* GdkPixbuf.new_subpixbuf succeeds only inside the snapshot
CropOk(x, y, w, h) ==
    /\ x >= 0
    /\ y >= 0
    /\ w > 0
    /\ h > 0
    /\ x + w <= img_width
    /\ y + h <= img_height

\* output.save_pixbuf as called by _take_screenshot: the temporary files on
\* disk after it.  It creates its file first; the file is unlinked only when
\* both pixbuf.savev (which needs a pixbuf: the crop succeeded) and
\* output.save return.
files_after_save_pixbuf(files, crop_ok, save_ok) ==
    IF crop_ok /\ save_ok THEN files ELSE files \cup {CropFile}

\* _take_screenshot(x, y, w, h); save_ok: output.save returns normally
take_screenshot(x, y, w, h, save_ok, by) ==
    /\ actions' = Append(actions, RegionAction(x, y, w, h, by))
    /\ save_calls' = IF CropOk(x, y, w, h) THEN save_calls + 1 ELSE save_calls
    /\ cleanup_and_exit(
          files_after_save_pixbuf(temp_files, CropOk(x, y, w, h), save_ok))

\* variant: without the finally clause a failed capture skips the teardown
take_window_screenshot_no_finally(win, capture_ok, save_ok, by) ==
    /\ actions' = Append(actions, WindowAction(win.app_id, by))
    /\ save_calls' = IF win.app_id # "" /\ capture_ok
                     THEN save_calls + 1 ELSE save_calls
    /\ IF win.app_id # "" /\ ~capture_ok
       THEN UNCHANGED << overlay_instance, temp_files, window_shown,
                         destroy_calls, quit_calls, loop_running >>
       ELSE cleanup_and_exit(
              IF win.app_id # "" /\ capture_ok /\ ~save_ok
              THEN temp_files \cup {WindowFile} ELSE temp_files)

\* _take_window_screenshot(window); capture_ok: capture_window returned a
\* path (a failed capture_window has removed its own file); save_ok:
\* output.save returns normally, and only then is the capture file unlinked
take_window_screenshot(win, capture_ok, save_ok, by) ==
    /\ actions' = Append(actions, WindowAction(win.app_id, by))
    /\ save_calls' = IF win.app_id # "" /\ capture_ok
                     THEN save_calls + 1 ELSE save_calls
    /\ cleanup_and_exit(
          IF win.app_id # "" /\ capture_ok /\ ~save_ok
          THEN temp_files \cup {WindowFile} ELSE temp_files)

\* variant: the cancelling handler captures the whole snapshot before it
\* tears down
cancel_after_capture(by) ==
    /\ actions' = Append(actions, CancelAction(by))
    /\ save_calls' = save_calls + 1
    /\ cleanup_and_exit(temp_files)

\* a direct call of _cleanup_and_exit from a handler
cancel(by) ==
    /\ actions' = Append(actions, CancelAction(by))
    /\ UNCHANGED save_calls
    /\ cleanup_and_exit(temp_files)

\* variant: the threshold itself still counts as a click
is_click_inclusive(sx, sy, ex, ey) ==
    /\ Abs(ex - sx) <= ToFloat(DragThreshold)
    /\ Abs(ey - sy) <= ToFloat(DragThreshold)

\* _on_button_release: the click test on the press and release points
is_click(sx, sy, ex, ey) ==
    /\ Abs(ex - sx) < ToFloat(DragThreshold)
    /\ Abs(ey - sy) < ToFloat(DragThreshold)

\* variant: the origin is taken from the press point without min()
selection_rect_from_start(sx, sy, ex, ey) ==
    [x |-> ToInt(sx), y |-> ToInt(sy),
     w |-> ToInt(Abs(ex - sx)), h |-> ToInt(Abs(ey - sy))]

\* _on_button_release / _on_key_press: the rectangle handed to
\* _take_screenshot for a selection from (sx, sy) to (ex, ey)
selection_rect(sx, sy, ex, ey) ==
    [x |-> ToInt(Min(sx, ex)), y |-> ToInt(Min(sy, ey)),
     w |-> ToInt(Abs(ex - sx)), h |-> ToInt(Abs(ey - sy))]

\* variant: the corner is the press point, not the smaller coordinates
enter_rect_from_start(sx, sy, cx, cy) ==
    [x |-> ToInt(sx), y |-> ToInt(sy),
     w |-> ToInt(Abs(cx - sx)), h |-> ToInt(Abs(cy - sy))]

\* _on_key_press, Return: the rectangle handed to _take_screenshot
enter_rect(sx, sy, cx, cy) ==
    [x |-> ToInt(Min(sx, cx)), y |-> ToInt(Min(sy, cy)),
     w |-> ToInt(Abs(cx - sx)), h |-> ToInt(Abs(cy - sy))]

\* variant: SysRq is not among the capture keys
FullscreenKeysNoSysRq == {"Print", "space"}

\* _on_key_press: the keys that capture the whole snapshot
FullscreenKeys == {"Print", "space", "SysRq"}

\* the overlay window exists and the main loop is between two iterations
Live ==
    /\ phase = "main"
    /\ loop_running
    /\ pending_dispatch = 0

\* ------------------------------------------------------------- magnifier.py
\* Magnifier.__init__: radius, pixels_shown; draw: the 40 px gap to the pointer
MagRadius == 225
MagGap == 40
PixelsShown == 9
MagDiameter == ToFloat(2 * MagRadius)

\* Magnifier.draw: the top-left corner of the magnifier's box for a pointer
\* at (cx, cy) on a canvas of w x h pixels
magnifier_place(cx, cy, w, h) ==
    LET x0 == cx + ToFloat(MagGap)
        x1 == IF x0 + MagDiameter > ToFloat(w)
              THEN cx - ToFloat(MagGap) - MagDiameter ELSE x0
        x2 == IF x1 < 0 THEN ToFloat(MagGap) ELSE x1
        y0 == cy - ToFloat(MagGap) - MagDiameter
        y1 == IF y0 < 0 THEN cy + ToFloat(MagGap) ELSE y0
        y2 == IF y1 + MagDiameter > ToFloat(h)
              THEN ToFloat(h) - MagDiameter - ToFloat(MagGap) ELSE y1
    IN  [x |-> x2, y |-> y2]

\* Magnifier.draw: the snapshot pixel painted at the grid's first cell
magnifier_source(cx, cy) ==
    [x |-> Max(0, ToInt(cx) - 4), y |-> Max(0, ToInt(cy) - 4)]

\* Magnifier.draw: the index of the grid cell the highlight box is drawn on:
\* (box_x - draw_x) / zoom = (9 * zoom / 2 - zoom / 2) / zoom
HighlightCell == (PixelsShown - 1) \div 2

\* ------------------------------------------- drawing.py: window highlight
\* window.get("z_order", 999)
ZOrderOf(w) == IF w.z_order = None THEN 999 ELSE Val(w.z_order)

\* draw_window_highlight: the overlap test of the hovered window win with
\* another window
overlaps(win, other) ==
    ~ \/ other.x >= win.x + win.width
      \/ other.x + other.width <= win.x
      \/ other.y >= win.y + win.height
      \/ other.y + other.height <= win.y

\* variant: the windows behind the hovered one are collected
front_windows_behind(win, ws) ==
    { i \in 1..Len(ws) : /\ ZOrderOf(ws[i]) > ZOrderOf(win)
                         /\ overlaps(win, ws[i]) }

\* draw_window_highlight: front_windows, as positions in all_windows
front_windows(win, ws) ==
    { i \in 1..Len(ws) : /\ ZOrderOf(ws[i]) < ZOrderOf(win)
                         /\ overlaps(win, ws[i]) }

\* the area painted for a front window: its rectangle clipped to the
\* hovered window's rectangle, which is the clip in force
clip_area(win, other) ==
    Max(0, Min(win.x + win.width, other.x + other.width)
           - Max(win.x, other.x))
    * Max(0, Min(win.y + win.height, other.y + other.height)
             - Max(win.y, other.y))

\* the windows whose snapshot pixels are painted back over the tint
repainted_windows(win, ws) ==
    { ws[i].id : i \in { j \in front_windows(win, ws) :
                            clip_area(win, ws[j]) > 0 } }

\* variant: the renderer forgets the hovered window it has highlighted
hover_after_draw_cleared == None

\* _on_draw reads self.hovered_window and assigns nothing
hover_after_draw == hovered_window

\* what _on_draw paints: the window highlight, the selection rectangle, the
\* magnifier's box, the grid's source origin and the highlighted pixel
rendered_frame ==
    LET place == magnifier_place(current_x, current_y, img_width, img_height)
        src == magnifier_source(current_x, current_y)
    IN  [highlight |-> IF ~selecting THEN hovered_window ELSE None,
         repainted |-> IF ~selecting /\ hovered_window # None
                       THEN repainted_windows(Val(hovered_window), windows)
                       ELSE {},
         selection |-> IF selecting /\ start_x # None
                       THEN Some(enter_rect(Val(start_x), Val(start_y),
                                            current_x, current_y))
                       ELSE None,
         mag_x |-> place.x, mag_y |-> place.y,
         src_x |-> src.x, src_y |-> src.y,
         cell_x |-> src.x + HighlightCell, cell_y |-> src.y + HighlightCell]

\* -------------------------------------------------------------------- Init
\* processes that may invoke the tool, and inodes the lock file may get
Procs == 1..NumProcs
Inodes == 1..MaxInodes

Init ==
    /\ phase = "start"
    /\ views = << >>
    /\ windows = << >>
    /\ img_width = 0
    /\ img_height = 0
    /\ current_x = 0
    /\ current_y = 0
    /\ selecting = FALSE
    /\ start_x = None
    /\ start_y = None
    /\ hovered_window = None
    /\ overlay_instance = FALSE
    /\ loop_running = FALSE
    /\ sig_pending = FALSE
    /\ signals_sent = 0
    /\ idle_queue = 0
    /\ pending_dispatch = 0
    /\ actions = << >>
    /\ save_calls = 0
    /\ destroy_calls = 0
    /\ quit_calls = 0
    /\ handler_raised = FALSE
    /\ key_moves = 0
    /\ temp_files = {}
    /\ cursor_hidden = FALSE
    /\ window_shown = FALSE
    /\ redraw_queued = FALSE
    /\ frame = None
    /\ tap_file = None
    /\ tap_clock = 0
    /\ tap_prev = None
    /\ tap_result = "none"
    /\ lock_path = 0
    /\ inode_count = 0
    /\ flock_owner = [i \in Inodes |-> 0]
    /\ file_pid = [i \in Inodes |-> 0]
    /\ lpc = [p \in Procs |-> "idle"]
    /\ lfd = [p \in Procs |-> 0]
    /\ events = << >>
    /\ op_count = 0
    /\ cli_exit = None
    /\ last_capture = None
    /\ config_call = None

\* ---------------------------------------------------------- run_interactive
\* variant: show_cursor is not reached when the constructor raises
startup_aborts_cursor_hidden ==
    /\ phase' = "raised"
    /\ cursor_hidden' = TRUE
    /\ window_shown' = FALSE
    /\ UNCHANGED << img_width, img_height, current_x, current_y,
                    loop_running >>

\* capture_fullscreen raises in ScreenshotOverlay.__init__: the exception
\* leaves the constructor before show_all, passes the finally clause of
\* run_interactive (show_cursor) and reaches the caller
startup_aborts ==
    /\ phase' = "raised"
    /\ cursor_hidden' = FALSE
    /\ window_shown' = FALSE
    /\ UNCHANGED << img_width, img_height, current_x, current_y,
                    loop_running >>

\* variant: a reported position on the far edge counts as inside
initial_pointer_inclusive(cpos, w, h) ==
    IF /\ cpos # None
       /\ 0 <= Val(cpos)[1]
       /\ Val(cpos)[1] <= w
       /\ 0 <= Val(cpos)[2]
       /\ Val(cpos)[2] <= h
    THEN << ToFloat(Val(cpos)[1]), ToFloat(Val(cpos)[2]) >>
    ELSE << ToFloat(w \div 2), ToFloat(h \div 2) >>

\* __init__: the initial pointer, from get_cursor_position()'s answer cpos
\* (None, or whole pixels) on a snapshot of w x h pixels
initial_pointer(cpos, w, h) ==
    IF /\ cpos # None
       /\ 0 <= Val(cpos)[1]
       /\ Val(cpos)[1] < w
       /\ 0 <= Val(cpos)[2]
       /\ Val(cpos)[2] < h
    THEN << ToFloat(Val(cpos)[1]), ToFloat(Val(cpos)[2]) >>
    ELSE << ToFloat(w \div 2), ToFloat(h \div 2) >>

\* run_interactive up to the entry of Gtk.main(): ScreenshotOverlay.__init__
\* with the collaborators' answers as inputs.
\*   ipc, vs : the compositor (socket state, listed views)
\*   snap    : None when capture_fullscreen raises, else Some([w, h])
\*   cpos    : get_cursor_position(): None or Some(<<x, y>>) in whole pixels
RunInteractive(ipc, vs, snap, cpos) ==
    /\ phase = "start"
    /\ views' = IF ipc = "ok" THEN vs ELSE << >>
    /\ windows' = get_window_geometries(ipc, vs)
    /\ overlay_instance' = TRUE
    /\ temp_files' = {SnapshotFile}
    /\ IF snap = None
       THEN startup_aborts
       ELSE /\ phase' = "main"
            /\ cursor_hidden' = TRUE
            /\ window_shown' = TRUE
            /\ img_width' = Val(snap).w
            /\ img_height' = Val(snap).h
            /\ loop_running' = TRUE
            /\ current_x' = initial_pointer(cpos, Val(snap).w, Val(snap).h)[1]
            /\ current_y' = initial_pointer(cpos, Val(snap).w, Val(snap).h)[2]
    /\ selecting' = FALSE
    /\ start_x' = None
    /\ start_y' = None
    /\ hovered_window' = None
    /\ handler_raised' = FALSE
    /\ redraw_queued' = (snap # None)
    /\ UNCHANGED << signal_vars, actions, save_calls, destroy_calls,
                    quit_calls, key_moves >>
    /\ UNCHANGED aux_vars

\* Gtk.main() returns once the iteration that called main_quit is over
MainReturns ==
    /\ phase = "main"
    /\ ~loop_running
    /\ pending_dispatch = 0
    /\ phase' = "returned"
    /\ cursor_hidden' = FALSE
    /\ UNCHANGED << views, windows, img_width, img_height, pointer_vars,
                    selection_vars, hovered_window, signal_vars, exit_vars,
                    handler_raised, key_moves, redraw_queued >>
    /\ UNCHANGED aux_vars

\* ------------------------------------------------------------ input handlers
\* variant: the hovered window follows the pointer during a drag as well
on_motion_rehover(x, y) ==
    /\ Live
    /\ current_x' = x
    /\ current_y' = y
    /\ hovered_window' = find_window_at(windows, x, y)
    /\ handler_raised' = FALSE
    /\ redraw_queued' = TRUE
    /\ UNCHANGED << session_vars, selection_vars, signal_vars, exit_vars,
                    key_moves >>
    /\ UNCHANGED aux_vars

\* _on_motion(event) with event.x = x, event.y = y
on_motion(x, y) ==
    /\ Live
    /\ current_x' = x
    /\ current_y' = y
    /\ hovered_window' = IF ~selecting THEN find_window_at(windows, x, y)
                         ELSE hovered_window
    /\ handler_raised' = FALSE
    /\ redraw_queued' = TRUE
    /\ UNCHANGED << session_vars, selection_vars, signal_vars, exit_vars,
                    key_moves >>
    /\ UNCHANGED aux_vars

\* _on_button_press(event) with event.button = button
on_button_press(button) ==
    /\ Live
    /\ handler_raised' = FALSE
    /\ IF button = 3
       THEN /\ cancel("button3")
            /\ UNCHANGED << selection_vars, redraw_queued >>
       ELSE IF button = 1
       THEN /\ selecting' = TRUE
            /\ start_x' = Some(current_x)
            /\ start_y' = Some(current_y)
            /\ redraw_queued' = TRUE
            /\ UNCHANGED exit_vars
       ELSE UNCHANGED << selection_vars, exit_vars, redraw_queued >>
    /\ UNCHANGED << session_vars, pointer_vars, hovered_window, signal_vars,
                    key_moves >>
    /\ UNCHANGED aux_vars

\* _on_button_release(event); capture_ok and save_ok are the outcomes of
\* capture_window and output.save
on_button_release(button, capture_ok, save_ok) ==
    /\ Live
    /\ IF button # 1
       THEN UNCHANGED << selection_vars, exit_vars >> /\ handler_raised' = FALSE
       ELSE /\ selecting' = FALSE
            /\ UNCHANGED << start_x, start_y >>
            /\ IF start_x = None \/ start_y = None
               THEN \* abs(float - None) raises TypeError
                    /\ handler_raised' = TRUE
                    /\ UNCHANGED exit_vars
               ELSE /\ handler_raised' = FALSE
                    /\ LET end_x == current_x
                           end_y == current_y
                           r == selection_rect(Val(start_x), Val(start_y),
                                               end_x, end_y)
                       IN  IF is_click(Val(start_x), Val(start_y),
                                       end_x, end_y)
                           THEN IF hovered_window # None
                                THEN take_window_screenshot(
                                       Val(hovered_window), capture_ok,
                                       save_ok, "release_click")
                                ELSE take_screenshot(0, 0, img_width,
                                       img_height, save_ok, "release_click")
                           ELSE IF r.w > 0 /\ r.h > 0
                                THEN take_screenshot(r.x, r.y, r.w, r.h,
                                       save_ok, "release_drag")
                                ELSE UNCHANGED exit_vars
    /\ UNCHANGED << session_vars, pointer_vars, hovered_window, signal_vars,
                    key_moves, redraw_queued >>
    /\ UNCHANGED aux_vars

\* _on_key_press(event) with event.keyval = key; save_ok is the outcome of
\* output.save
on_key_press(key, save_ok) ==
    /\ Live
    /\ handler_raised' = FALSE
    /\ IF key \in {"Left", "Right", "Up", "Down"}
       THEN /\ key_moves < MaxKeyMoves
            /\ key_moves' = key_moves + 1
            /\ current_x' = CASE key = "Left" -> Max(0, current_x - ToFloat(1))
                              [] key = "Right" ->
                                   Min(ToFloat(img_width),
                                       current_x + ToFloat(1))
                              [] OTHER -> current_x
            /\ current_y' = CASE key = "Up" -> Max(0, current_y - ToFloat(1))
                              [] key = "Down" ->
                                   Min(ToFloat(img_height),
                                       current_y + ToFloat(1))
                              [] OTHER -> current_y
            /\ hovered_window' =
                 IF ~selecting
                 THEN find_window_at(windows, current_x', current_y')
                 ELSE hovered_window
            /\ redraw_queued' = TRUE
            /\ UNCHANGED exit_vars
       ELSE /\ UNCHANGED << pointer_vars, hovered_window, key_moves,
                            redraw_queued >>
            /\ IF key = "Escape" THEN cancel("escape")
               ELSE IF key \in FullscreenKeys
               THEN take_screenshot(0, 0, img_width, img_height, save_ok,
                                    "key_fullscreen")
               ELSE IF key = "Return" /\ selecting
               THEN LET r == enter_rect(Val(start_x), Val(start_y),
                                        current_x, current_y)
                    IN  IF r.w > 0 /\ r.h > 0
                        THEN take_screenshot(r.x, r.y, r.w, r.h, save_ok,
                                             "key_enter")
                        ELSE UNCHANGED exit_vars
               ELSE UNCHANGED exit_vars
    /\ UNCHANGED << session_vars, selection_vars, signal_vars >>
    /\ UNCHANGED aux_vars

\* --------------------------------------------------------------- rendering
\* _on_draw(widget, cr), dispatched by the main loop as a step of its own
on_draw ==
    /\ Live
    /\ frame' = Some(rendered_frame)
    /\ hovered_window' = hover_after_draw
    /\ redraw_queued' = FALSE
    /\ UNCHANGED << session_vars, pointer_vars, selection_vars, signal_vars,
                    exit_vars, handler_raised, key_moves, tap_vars,
                    lock_vars, cli_vars, config_vars >>

\* ------------------------------------------------------- fullscreen signal
\* another invocation's signal_fullscreen: os.kill(pid, SIGUSR1).  GLib only
\* records that the signal is pending.
SignalArrives(limit) ==
    /\ phase = "main"
    /\ signals_sent < limit
    /\ signals_sent' = signals_sent + 1
    /\ sig_pending' = TRUE
    /\ UNCHANGED << session_vars, pointer_vars, selection_vars,
                    hovered_window, idle_queue, pending_dispatch, exit_vars,
                    handler_raised, key_moves, redraw_queued >>
    /\ UNCHANGED aux_vars

\* variant: the handler captures at once instead of queueing the callback
glib_signal_handler_direct ==
    /\ Live
    /\ sig_pending
    /\ sig_pending' = FALSE
    /\ take_screenshot(0, 0, img_width, img_height, TRUE, "signal")
    /\ UNCHANGED << session_vars, pointer_vars, selection_vars,
                    hovered_window, signals_sent, idle_queue,
                    pending_dispatch, handler_raised, key_moves,
                    redraw_queued >>
    /\ UNCHANGED aux_vars

\* _glib_signal_handler, dispatched by the main loop at PRIORITY_HIGH
glib_signal_handler ==
    /\ Live
    /\ sig_pending
    /\ sig_pending' = FALSE
    /\ idle_queue' = IF overlay_instance THEN idle_queue + 1 ELSE idle_queue
    /\ UNCHANGED << session_vars, pointer_vars, selection_vars,
                    hovered_window, signals_sent, pending_dispatch,
                    exit_vars, handler_raised, key_moves, redraw_queued >>
    /\ UNCHANGED aux_vars

\* variant: a signal that arrives during a drag captures the selection
fullscreen_now_rect_selection ==
    IF selecting
    THEN selection_rect(Val(start_x), Val(start_y), current_x, current_y)
    ELSE [x |-> 0, y |-> 0, w |-> img_width, h |-> img_height]

\* take_fullscreen_now: the arguments it passes to _take_screenshot
fullscreen_now_rect ==
    [x |-> 0, y |-> 0, w |-> img_width, h |-> img_height]

\* take_fullscreen_now, run as an idle callback; save_ok is the outcome of
\* output.save.  One main-loop iteration
\* dispatches every idle callback that was queued when it started, so a
\* callback collected together with an earlier one still runs after that one
\* has asked the loop to quit.
take_fullscreen_now(save_ok) ==
    /\ phase = "main"
    /\ \/ /\ pending_dispatch = 0
          /\ loop_running
          /\ ~sig_pending
          /\ idle_queue > 0
          /\ pending_dispatch' = idle_queue - 1
          /\ idle_queue' = 0
       \/ /\ pending_dispatch > 0
          /\ pending_dispatch' = pending_dispatch - 1
          /\ UNCHANGED idle_queue
    /\ take_screenshot(fullscreen_now_rect.x, fullscreen_now_rect.y,
                       fullscreen_now_rect.w, fullscreen_now_rect.h, save_ok,
                       "signal")
    /\ handler_raised' = FALSE
    /\ UNCHANGED << session_vars, pointer_vars, selection_vars,
                    hovered_window, sig_pending, signals_sent, key_moves,
                    redraw_queued >>
    /\ UNCHANGED aux_vars

\* ------------------------------------------------------------ input domains
Buttons == {1, 2, 3}
Keys == {"Left", "Right", "Up", "Down", "Escape", "Print", "space", "SysRq",
         "Return", "other"}

\* pointer coordinates a motion event may carry on a canvas of n pixels:
\* half a pixel outside the low edge, the edge, the drag threshold, and a
\* pixel beyond the high edge
MotionXs(n) == {0 - 1, 0, ToFloat(DragThreshold), ToFloat(n + 1)}
\* ... and, on the other axis, a sub-pixel step instead of the low outside
MotionYs(n) == {0, 1, ToFloat(DragThreshold)}

\* ------------------------------------------------- compositor view fixtures
VA == View(1, "app.a", TRUE, FALSE, TopLevel, WorkspaceLayer, 0, 0, 6, 6, 1, TRUE)
VB == View(2, "app.b", TRUE, FALSE, TopLevel, WorkspaceLayer, 0, 0, 1, 1, 2, TRUE)
VC == View(3, "app.c", TRUE, FALSE, TopLevel, WorkspaceLayer, 0, 0, 3, 3, 1, TRUE)
VSelf == View(4, SelfAppId, TRUE, FALSE, TopLevel, WorkspaceLayer, 0, 0, 6, 6, 3, TRUE)
VZero == View(5, "app.z", TRUE, FALSE, TopLevel, WorkspaceLayer, 1, 1, 0, 3, 3, TRUE)
VNoApp == View(7, "", TRUE, FALSE, TopLevel, WorkspaceLayer, 0, 0, 2, 2, 4, TRUE)
VMin == View(8, "app.m", TRUE, TRUE, TopLevel, WorkspaceLayer, 0, 0, 2, 2, 5, TRUE)
VUnmapped == View(9, "app.u", FALSE, FALSE, TopLevel, WorkspaceLayer, 0, 0, 2, 2, 6, TRUE)
VPanel == View(10, "app.p", TRUE, FALSE, TopLevel, "top", 0, 0, 2, 2, 7, TRUE)
VPopup == View(11, "app.q", TRUE, FALSE, "x-or", WorkspaceLayer, 0, 0, 2, 2, 8, TRUE)
VBad == View(6, "app.x", TRUE, FALSE, TopLevel, WorkspaceLayer, 0, 0, 1, 1, 0, FALSE)

\* the compositor answers of an overlay session: <<ipc, views>>
SessionQueries ==
    { << "ok", << VA, VB >> >>,
      << "no_socket", << VA, VB >> >>,
      << "list_fails", << VA, VB >> >> }

Snapshots == { None, Some([w |-> SnapW, h |-> SnapH]) }
CursorAnswers == { None, Some(<< 1, 1 >>), Some(<< SnapW, 0 >>),
                   Some(<< 1, SnapH >>), Some(<< 0 - 1, 1 >>) }

\* -------------------------------------------------------------------- Next
Next ==
    \/ \E q \in SessionQueries, snap \in Snapshots, cpos \in CursorAnswers :
          RunInteractive(q[1], q[2], snap, cpos)
    \/ \E x \in MotionXs(img_width), y \in MotionYs(img_height) :
          on_motion(x, y)
    \/ \E b \in Buttons : on_button_press(b)
    \/ \E b \in Buttons, ok \in BOOLEAN, sv \in BOOLEAN :
          on_button_release(b, ok, sv)
    \/ \E k \in Keys, sv \in BOOLEAN : on_key_press(k, sv)
    \/ SignalArrives(SessionSignals)
    \/ glib_signal_handler
    \/ \E sv \in BOOLEAN : take_fullscreen_now(sv)
    \/ MainReturns

Spec == Init /\ [][Next]_vars

\* --------------------------------------------- sessions with two signals
\* The same overlay with up to MaxSignals fullscreen signals and a coarse
\* pointer.
SignalQueries == { << "ok", << VA, VB >> >> }
SignalSnapshots == { Some([w |-> SnapW, h |-> SnapH]) }
SignalXs == {0, 1, ToFloat(DragThreshold)}
SignalYs == {0, ToFloat(DragThreshold)}

NextSignals ==
    \/ \E q \in SignalQueries, snap \in SignalSnapshots :
          RunInteractive(q[1], q[2], snap, None)
    \/ \E x \in SignalXs, y \in SignalYs : on_motion(x, y)
    \/ \E b \in Buttons : on_button_press(b)
    \/ \E b \in Buttons, ok \in BOOLEAN, sv \in BOOLEAN :
          on_button_release(b, ok, sv)
    \/ \E k \in Keys, sv \in BOOLEAN : on_key_press(k, sv)
    \/ SignalArrives(MaxSignals)
    \/ glib_signal_handler
    \/ \E sv \in BOOLEAN : take_fullscreen_now(sv)
    \/ MainReturns

SpecSignals == Init /\ [][NextSignals]_vars

\* ------------------------------------------------- the registry on its own
\* Overlay construction over every list of at most MaxViews distinct views.
ViewPool == {VA, VB, VC, VSelf, VZero, VBad, VNoApp, VMin, VUnmapped, VPanel,
             VPopup}

ViewLists ==
    { vs \in UNION { [1..n -> ViewPool] : n \in 0..MaxViews } :
        \A i, j \in 1..Len(vs) : i # j => vs[i].id # vs[j].id }

NextRegistry ==
    \E ipc \in {"ok", "no_socket", "list_fails"}, vs \in ViewLists,
       snap \in Snapshots :
          RunInteractive(ipc, vs, snap, None)

SpecRegistry == Init /\ [][NextRegistry]_vars

\* ------------------------------------------- the 1920x1080 two-window case
E2EViews ==
    << View(1, "app.one", TRUE, FALSE, TopLevel, WorkspaceLayer,
            0, 0, 800, 600, 100, TRUE),
       View(2, "app.two", TRUE, FALSE, TopLevel, WorkspaceLayer,
            100, 100, 400, 300, 200, TRUE) >>
E2ESnapshot == [w |-> 1920, h |-> 1080]
E2ECursors == { None, Some(<< 200, 200 >>) }
E2EXs == {ToFloat(50), ToFloat(200), ToFloat(203), ToFloat(900)}
E2EYs == {ToFloat(200), ToFloat(202), ToFloat(700)}

NextE2E ==
    \/ \E cpos \in E2ECursors :
          RunInteractive("ok", E2EViews, Some(E2ESnapshot), cpos)
    \/ \E x \in E2EXs, y \in E2EYs : on_motion(x, y)
    \/ \E b \in Buttons : on_button_press(b)
    \/ \E b \in Buttons, ok \in BOOLEAN, sv \in BOOLEAN :
          on_button_release(b, ok, sv)
    \/ \E k \in Keys, sv \in BOOLEAN : on_key_press(k, sv)
    \/ SignalArrives(SessionSignals)
    \/ glib_signal_handler
    \/ \E sv \in BOOLEAN : take_fullscreen_now(sv)
    \/ MainReturns

SpecE2E == Init /\ [][NextE2E]_vars

\* ------------------------------------------------- the magnifier on its own
\* Overlays on a full-HD and on a small panel, the pointer moved to the
\* corners, next to the edges and around the points where the magnifier
\* changes side, and drawn.
CanvasSizes == { [w |-> 1920, h |-> 1080], [w |-> 800, h |-> 480] }
InCanvas(vs, n) == { v \in vs : 0 <= v /\ v <= ToFloat(n) }
MagXs(w) ==
    InCanvas({0, ToFloat(2), ToFloat(4), ToFloat(w - 2 * MagRadius - MagGap),
              ToFloat(w - 2 * MagRadius - MagGap) + 1, ToFloat(w - 1),
              ToFloat(w)}, w)
MagYs(h) ==
    InCanvas({0, ToFloat(2), ToFloat(4), ToFloat(2 * MagRadius + MagGap) - 1,
              ToFloat(2 * MagRadius + MagGap), ToFloat(h - 1), ToFloat(h)}, h)

NextMagnifier ==
    \/ \E size \in CanvasSizes :
          RunInteractive("ok", << >>, Some(size), None)
    \/ \E x \in MagXs(img_width), y \in MagYs(img_height) : on_motion(x, y)
    \/ on_draw

SpecMagnifier == Init /\ [][NextMagnifier]_vars

\* ------------------------------------------- handlers, rendering and signal
\* One session in which the pointer also leaves the snapshot by more than a
\* pixel, with redraws and one fullscreen signal.
DrawXs == {ToFloat(1), ToFloat(SnapW + 2)}
DrawYs == {ToFloat(1), 0 - ToFloat(2)}

NextDraw ==
    \/ \E q \in SignalQueries, snap \in SignalSnapshots :
          RunInteractive(q[1], q[2], snap, None)
    \/ \E x \in DrawXs, y \in DrawYs : on_motion(x, y)
    \/ \E b \in Buttons : on_button_press(b)
    \/ \E b \in Buttons : on_button_release(b, TRUE, TRUE)
    \/ \E k \in Keys : on_key_press(k, TRUE)
    \/ on_draw
    \/ SignalArrives(1)
    \/ glib_signal_handler
    \/ take_fullscreen_now(TRUE)
    \/ MainReturns

SpecDraw == Init /\ [][NextDraw]_vars

\* ------------------------------------------ the hand-off to a running instance
\* SIGUSR1 sent by signal_fullscreen reaches a process that holds the lock
\* but has not yet called GLib.unix_signal_add in run_interactive: the
\* signal has its default disposition, which terminates the process.
sigusr1_before_handler ==
    /\ phase = "start"
    /\ signals_sent < 1
    /\ signals_sent' = signals_sent + 1
    /\ phase' = "killed"
    /\ UNCHANGED << views, windows, img_width, img_height, cursor_hidden,
                    pointer_vars, selection_vars, hovered_window,
                    sig_pending, idle_queue, pending_dispatch, exit_vars,
                    handler_raised, key_moves, redraw_queued, aux_vars >>

\* The running instance from lock acquisition on, with a user who only moves
\* the pointer and starts a drag, and one signal from a second invocation.
NextHandoff ==
    \/ \E q \in SignalQueries, snap \in SignalSnapshots,
          cpos \in CursorAnswers :
          RunInteractive(q[1], q[2], snap, cpos)
    \/ sigusr1_before_handler
    \/ SignalArrives(1)
    \/ glib_signal_handler
    \/ \E sv \in BOOLEAN : take_fullscreen_now(sv)
    \/ \E x \in SignalXs, y \in SignalYs : on_motion(x, y)
    \/ on_button_press(1)
    \/ MainReturns

SpecHandoff == Init /\ [][NextHandoff]_vars

\* ------------------------------------------------------- instance.py: lock
\* Each process runs handle_interactive once (acquire_lock, and release_lock
\* after the overlay) or cleanup_stale_lock once.  The lock file is a path
\* that names an inode; flock and the written pid belong to the inode.

\* acquire_lock: open(lock_file, "a+"), which creates the file when the
\* path names nothing
lock_open(p) ==
    /\ lpc[p] = "idle"
    /\ IF lock_path = 0
       THEN /\ inode_count < MaxInodes
            /\ inode_count' = inode_count + 1
            /\ lock_path' = inode_count + 1
       ELSE UNCHANGED << inode_count, lock_path >>
    /\ lfd' = [lfd EXCEPT ![p] = lock_path']
    /\ lpc' = [lpc EXCEPT ![p] = "opened"]
    /\ UNCHANGED << flock_owner, file_pid >>
    /\ UNCHANGED << overlay_vars, frame, tap_vars, cli_vars, config_vars >>

\* variant: a pid left in the file counts as a held lock
lock_flock_pid_file(p) ==
    /\ lpc[p] = "opened"
    /\ IF flock_owner[lfd[p]] = 0 /\ file_pid[lfd[p]] = 0
       THEN /\ flock_owner' = [flock_owner EXCEPT ![lfd[p]] = p]
            /\ lpc' = [lpc EXCEPT ![p] = "locked"]
            /\ UNCHANGED lfd
       ELSE /\ lfd' = [lfd EXCEPT ![p] = 0]
            /\ lpc' = [lpc EXCEPT ![p] = "refused"]
            /\ UNCHANGED flock_owner
    /\ UNCHANGED << lock_path, inode_count, file_pid >>
    /\ UNCHANGED << overlay_vars, frame, tap_vars, cli_vars, config_vars >>

\* acquire_lock: flock(LOCK_EX | LOCK_NB); on failure close and return False
lock_flock(p) ==
    /\ lpc[p] = "opened"
    /\ IF flock_owner[lfd[p]] = 0
       THEN /\ flock_owner' = [flock_owner EXCEPT ![lfd[p]] = p]
            /\ lpc' = [lpc EXCEPT ![p] = "locked"]
            /\ UNCHANGED lfd
       ELSE /\ lfd' = [lfd EXCEPT ![p] = 0]
            /\ lpc' = [lpc EXCEPT ![p] = "refused"]
            /\ UNCHANGED flock_owner
    /\ UNCHANGED << lock_path, inode_count, file_pid >>
    /\ UNCHANGED << overlay_vars, frame, tap_vars, cli_vars, config_vars >>

\* acquire_lock: truncate, write the pid, flush, return True
lock_write_pid(p) ==
    /\ lpc[p] = "locked"
    /\ file_pid' = [file_pid EXCEPT ![lfd[p]] = p]
    /\ lpc' = [lpc EXCEPT ![p] = "holding"]
    /\ UNCHANGED << lock_path, inode_count, flock_owner, lfd >>
    /\ UNCHANGED << overlay_vars, frame, tap_vars, cli_vars, config_vars >>

\* handle_interactive after a refused lock: signal_fullscreen, then exit
lock_refused_exit(p) ==
    /\ lpc[p] = "refused"
    /\ lpc' = [lpc EXCEPT ![p] = "done"]
    /\ UNCHANGED << lock_path, inode_count, flock_owner, file_pid, lfd >>
    /\ UNCHANGED << overlay_vars, frame, tap_vars, cli_vars, config_vars >>

\* release_lock: flock(LOCK_UN), close, self._lock_fd = None
release_unlock(p) ==
    /\ lpc[p] = "holding"
    /\ flock_owner' = [flock_owner EXCEPT ![lfd[p]] = 0]
    /\ lfd' = [lfd EXCEPT ![p] = 0]
    /\ lpc' = [lpc EXCEPT ![p] = "unlocked"]
    /\ UNCHANGED << lock_path, inode_count, file_pid >>
    /\ UNCHANGED << overlay_vars, frame, tap_vars, cli_vars, config_vars >>

\* release_lock: lock_file.unlink(missing_ok=True)
release_unlink(p) ==
    /\ lpc[p] = "unlocked"
    /\ lock_path' = 0
    /\ lpc' = [lpc EXCEPT ![p] = "done"]
    /\ UNCHANGED << inode_count, flock_owner, file_pid, lfd >>
    /\ UNCHANGED << overlay_vars, frame, tap_vars, cli_vars, config_vars >>

\* get_running_pid: None when the file is missing, holds no number, or
\* names a process that does not exist
get_running_pid ==
    IF lock_path = 0 THEN 0
    ELSE IF file_pid[lock_path] = 0 THEN 0
    ELSE IF lpc[file_pid[lock_path]] \in {"idle", "done", "dead"} THEN 0
    ELSE file_pid[lock_path]

\* cleanup_stale_lock: the test of get_running_pid
cleanup_check(p) ==
    /\ lpc[p] = "idle"
    /\ lpc' = [lpc EXCEPT ![p] = IF get_running_pid = 0 THEN "stale"
                                  ELSE "done"]
    /\ UNCHANGED << lock_path, inode_count, flock_owner, file_pid, lfd >>
    /\ UNCHANGED << overlay_vars, frame, tap_vars, cli_vars, config_vars >>

\* cleanup_stale_lock: lock_file.unlink(missing_ok=True)
cleanup_unlink(p) ==
    /\ lpc[p] = "stale"
    /\ lock_path' = 0
    /\ lpc' = [lpc EXCEPT ![p] = "done"]
    /\ UNCHANGED << inode_count, flock_owner, file_pid, lfd >>
    /\ UNCHANGED << overlay_vars, frame, tap_vars, cli_vars, config_vars >>

\* The instance dies without release_lock: SIGTERM / SIGKILL from
\* kill_running, or a crash.  The kernel closes its descriptors, which drops
\* the flock it holds; the file and the pid in it stay.
process_killed(p) ==
    /\ lpc[p] \in {"opened", "locked", "holding"}
    /\ flock_owner' = [i \in Inodes |->
                          IF flock_owner[i] = p THEN 0 ELSE flock_owner[i]]
    /\ lfd' = [lfd EXCEPT ![p] = 0]
    /\ lpc' = [lpc EXCEPT ![p] = "dead"]
    /\ UNCHANGED << lock_path, inode_count, file_pid >>
    /\ UNCHANGED << overlay_vars, frame, tap_vars, cli_vars, config_vars >>

NextLock ==
    \/ \E p \in Procs : lock_open(p)
    \/ \E p \in Procs : lock_flock(p)
    \/ \E p \in Procs : lock_write_pid(p)
    \/ \E p \in Procs : lock_refused_exit(p)
    \/ \E p \in Procs : release_unlock(p)
    \/ \E p \in Procs : release_unlink(p)
    \/ \E p \in Procs : cleanup_check(p)
    \/ \E p \in Procs : cleanup_unlink(p)
    \/ \E p \in Procs : process_killed(p)

SpecLock == Init /\ [][NextLock]_vars

\* ------------------------------------------------- instance.py: double tap
\* config.double_tap_ms
DoubleTapMs == 500

\* variant: a double-tap leaves the record in place
check_double_tap_keeps_record(now) ==
    IF tap_file # None /\ now - Val(tap_file) < DoubleTapMs
    THEN [double |-> TRUE, file |-> tap_file]
    ELSE [double |-> FALSE, file |-> Some(now)]

\* check_double_tap at time now (ms): the answer and the record it leaves
check_double_tap(now) ==
    IF tap_file # None /\ now - Val(tap_file) < DoubleTapMs
    THEN [double |-> TRUE, file |-> None]
    ELSE [double |-> FALSE, file |-> Some(now)]

\* main, step 2: mode is "interactive" when none of --instant, --region and
\* --window is given.  tap_prev is the history of the last invocation that
\* ran check_double_tap: whether it was a double-tap, and when it ran.
main_invocation(mode) ==
    /\ IF mode = "interactive"
       THEN LET r == check_double_tap(tap_clock)
            IN  /\ tap_file' = r.file
                /\ tap_result' = IF r.double THEN "double" ELSE "single"
                /\ tap_prev' = Some([double |-> r.double, time |-> tap_clock])
       ELSE /\ tap_result' = "explicit"
            /\ UNCHANGED << tap_file, tap_prev >>
    /\ UNCHANGED << tap_clock, overlay_vars, frame, lock_vars, cli_vars,
                    config_vars >>

\* time passes between invocations
tap_tick(d) ==
    /\ tap_clock + d <= MaxClock
    /\ tap_clock' = tap_clock + d
    /\ UNCHANGED << tap_file, tap_prev, tap_result, overlay_vars, frame,
                    lock_vars, cli_vars, config_vars >>

InvocationModes == {"interactive", "instant", "region", "window"}
TapSteps == {DoubleTapMs - 1, DoubleTapMs, DoubleTapMs + 1}

NextTap ==
    \/ \E mode \in InvocationModes : main_invocation(mode)
    \/ \E d \in TapSteps : tap_tick(d)

SpecTap == Init /\ [][NextTap]_vars

\* ------------------------------------------------ capture.py and the CLI paths
\* invocations of a CLI capture path in one history
MaxOps == 2

\* What a capture call meets: whether the wayland-capture binary can be
\* started, whether its --list names an output, and how its capture run
\* ends.  A binary that cannot be started lists nothing either.
CaptureRuns == {"ok", "nonzero", "timeout"}
CaptureEnvs ==
    { [binary |-> TRUE, listed |-> l, run |-> r] :
          l \in BOOLEAN, r \in CaptureRuns }
    \cup { [binary |-> FALSE, listed |-> FALSE, run |-> "not_found"] }

\* how a capture function ends: the exception that leaves it ("none" when it
\* returns the path) and whether its temporary file is on disk afterwards
CaptureEnd(fn, raised, temp) == [fn |-> fn, raised |-> raised, temp |-> temp]

\* fullscreen(monitor, config): the temporary file is created first
fullscreen(monitor_given, env) ==
    IF ~monitor_given /\ ~env.listed
    THEN CaptureEnd("fullscreen", "CaptureError", TRUE)
    ELSE IF env.run = "ok"
    THEN CaptureEnd("fullscreen", "none", TRUE)
    ELSE \* non-zero status, TimeoutExpired, FileNotFoundError: unlink, raise
         CaptureEnd("fullscreen", "CaptureError", FALSE)

\* region(x, y, width, height, config): the output name comes from the same
\* binary's --list, and FileNotFoundError from subprocess.run is not caught
region(env) ==
    IF ~env.listed
    THEN CaptureEnd("region", "CaptureError", TRUE)
    ELSE IF env.run = "ok"
    THEN CaptureEnd("region", "none", TRUE)
    ELSE IF env.run = "not_found"
    THEN CaptureEnd("region", "FileNotFoundError", TRUE)
    ELSE CaptureEnd("region", "CaptureError", FALSE)

\* window(app_id, config): no output name is needed; FileNotFoundError from
\* subprocess.run is not caught
window(env) ==
    IF env.run = "ok"
    THEN CaptureEnd("window", "none", TRUE)
    ELSE IF env.run = "not_found"
    THEN CaptureEnd("window", "FileNotFoundError", TRUE)
    ELSE CaptureEnd("window", "CaptureError", FALSE)

\* emit("operation.started", ...) / emit("operation.completed", ...)
StartedEvent(id) == [type |-> "operation.started", id |-> id, ok |-> TRUE]
CompletedEvent(id, ok) ==
    [type |-> "operation.completed", id |-> id, ok |-> ok]

\* The body shared by handle_instant_capture, handle_region_capture,
\* handle_window_capture and the double-tap branch of main:
\*     operation_id = _start_operation(...)
\*     try: temp_path = <capture>; result = save(...); temp_path.unlink();
\*          _complete_operation(result=result); return 0
\*     except CaptureError: _complete_operation(error_message=...); return 1
\* c is how the capture call ended; save_ok: output.save returns normally.
\* The exit code is "0" or "1", or the name of the exception that leaves
\* the path.
capture_path(mode, c, save_ok) ==
    LET id == op_count + 1
    IN  /\ op_count < MaxOps
        /\ op_count' = id
        /\ last_capture' = Some(c)
        /\ events' = IF c.raised = "none" /\ save_ok
                     THEN events \o << StartedEvent(id),
                                       CompletedEvent(id, TRUE) >>
                     ELSE IF c.raised = "CaptureError"
                     THEN events \o << StartedEvent(id),
                                       CompletedEvent(id, FALSE) >>
                     ELSE Append(events, StartedEvent(id))
        /\ cli_exit' = Some([mode |-> mode,
                             code |-> IF c.raised = "none"
                                      THEN IF save_ok THEN "0"
                                           ELSE "SaveError"
                                      ELSE IF c.raised = "CaptureError"
                                      THEN "1" ELSE c.raised,
                             temp |-> c.temp /\ ~(c.raised = "none"
                                                  /\ save_ok)])

\* handle_instant_capture(args, config, options)
handle_instant_capture(monitor_given, env, save_ok) ==
    /\ capture_path("instant", fullscreen(monitor_given, env), save_ok)
    /\ UNCHANGED << overlay_vars, frame, tap_vars, lock_vars, config_vars >>

\* handle_region_capture: an argument that does not parse as X,Y,W,H returns
\* 1 before any operation is started
handle_region_capture(arg_ok, env, save_ok) ==
    /\ IF arg_ok
       THEN capture_path("region", region(env), save_ok)
       ELSE /\ cli_exit' = Some([mode |-> "region", code |-> "1",
                                 temp |-> FALSE])
            /\ UNCHANGED << events, op_count, last_capture >>
    /\ UNCHANGED << overlay_vars, frame, tap_vars, lock_vars, config_vars >>

\* handle_window_capture(args, config, options)
handle_window_capture(env, save_ok) ==
    /\ capture_path("window", window(env), save_ok)
    /\ UNCHANGED << overlay_vars, frame, tap_vars, lock_vars, config_vars >>

\* main, once check_double_tap has answered True: fullscreen(config=config)
\* between hide_cursor and the finally clause's show_cursor
main_double_tap(env, save_ok) ==
    /\ capture_path("double_tap", fullscreen(FALSE, env), save_ok)
    /\ UNCHANGED << overlay_vars, frame, tap_vars, lock_vars, config_vars >>

NextCli ==
    \/ \E mg \in BOOLEAN, env \in CaptureEnvs, sv \in BOOLEAN :
          handle_instant_capture(mg, env, sv)
    \/ \E a \in BOOLEAN, env \in CaptureEnvs, sv \in BOOLEAN :
          handle_region_capture(a, env, sv)
    \/ \E env \in CaptureEnvs, sv \in BOOLEAN : handle_window_capture(env, sv)
    \/ \E env \in CaptureEnvs, sv \in BOOLEAN : main_double_tap(env, sv)

SpecCli == Init /\ [][NextCli]_vars

\* ------------------------------------------------------------- config.py
\* Python values as the configuration holds them: a type and a canonical
\* text.
PyStr(s) == [type |-> "str", text |-> s]
PyInt(s) == [type |-> "int", text |-> s]
PyBool(b) == [type |-> "bool", text |-> IF b THEN "True" ELSE "False"]

\* one key of each kind that _load_env_overrides treats differently: plain
\* text, an integer, a boolean and a path
ConfigKeys == {"wayland_capture", "double_tap_ms", "enable_sound",
               "output_dir"}

\* str(Path(value).expanduser()) with HOME=/home/user
ExpandUser(s) ==
    CASE s = "~/file" -> "/home/user/file"
      [] s = "~/env" -> "/home/user/env"
      [] s = "~/cli" -> "/home/user/cli"
      [] OTHER -> s

\* int(value): surrounding blanks are accepted, other text raises ValueError
ParseInt(s) ==
    CASE s = "250" -> Some(PyInt("250"))
      [] s = " 300 " -> Some(PyInt("300"))
      [] OTHER -> None

\* _expand_path applied to a value of the dictionary
expand_path(v) == IF v.type = "str" THEN PyStr(ExpandUser(v.text)) ELSE v

\* config_defaults()
config_defaults ==
    [k \in ConfigKeys |->
        CASE k = "wayland_capture" -> PyStr("wayland-capture")
          [] k = "double_tap_ms" -> PyInt("500")
          [] k = "enable_sound" -> PyBool(TRUE)
          [] k = "output_dir" -> PyStr("/home/user/Pictures/screenshots")]

\* _load_env_overrides(): the entry of key k for the variable's text, or None
\* when the dictionary gets no entry
env_override(k, text) ==
    IF text = None THEN None
    ELSE IF k = "output_dir" THEN Some(PyStr(ExpandUser(Val(text))))
    ELSE IF k = "double_tap_ms" THEN ParseInt(Val(text))
    ELSE IF k = "enable_sound"
    THEN \* value.lower() in ("true", "1", "yes", "on")
         Some(PyBool((IF Val(text) = "YES" THEN "yes" ELSE Val(text))
                        \in {"true", "1", "yes", "on"}))
    ELSE Some(PyStr(Val(text)))

\* dict.update(src): the entries of src replace those of d; each entry
\* remembers the source that wrote it
dict_update(d, src, name) ==
    [k \in ConfigKeys |->
        IF src[k] # None THEN [value |-> Val(src[k]), source |-> name]
        ELSE d[k]]

\* variant: the file is applied after the environment
load_config_file_last(file, env, overrides, extra) ==
    LET d0 == [k \in ConfigKeys |->
                  [value |-> config_defaults[k], source |-> "default"]]
        d1 == dict_update(d0, [k \in ConfigKeys |-> env_override(k, env[k])],
                          "env")
        d2 == dict_update(d1, file, "file")
        d3 == dict_update(d2, overrides, "cli")
        d4 == [k \in ConfigKeys |->
                  IF k = "output_dir"
                  THEN [d3[k] EXCEPT !.value = expand_path(d3[k].value)]
                  ELSE d3[k]]
    IN  IF extra THEN [raised |-> "TypeError", values |-> d0]
        ELSE [raised |-> "none", values |-> d4]

\* load_config(config_path, overrides).  file: the mapping read from the
\* config file; env: the SCREENSHOT_TOOL_* variables' texts; overrides: the
\* caller's dictionary (None entries are skipped); extra: the file holds a key
\* that Config does not declare, so Config(**config_dict) raises TypeError.
load_config(file, env, overrides, extra) ==
    LET d0 == [k \in ConfigKeys |->
                  [value |-> config_defaults[k], source |-> "default"]]
        d1 == dict_update(d0, file, "file")
        d2 == dict_update(d1, [k \in ConfigKeys |-> env_override(k, env[k])],
                          "env")
        d3 == dict_update(d2, overrides, "cli")
        d4 == [k \in ConfigKeys |->
                  IF k = "output_dir"
                  THEN [d3[k] EXCEPT !.value = expand_path(d3[k].value)]
                  ELSE d3[k]]
    IN  IF extra THEN [raised |-> "TypeError", values |-> d0]
        ELSE [raised |-> "none", values |-> d4]

\* main loads the configuration once per process
load_config_call(file, env, overrides, extra) ==
    /\ config_call = None
    /\ config_call' = Some([file |-> file, env |-> env,
                            overrides |-> overrides,
                            result |-> load_config(file, env, overrides,
                                                   extra)])
    /\ UNCHANGED << overlay_vars, frame, tap_vars, lock_vars, cli_vars >>

\* what each source may hold for a key
FileValues(k) ==
    CASE k = "wayland_capture" ->
             {None, Some(PyStr("wc-file")),
              \* a YAML null
              Some([type |-> "NoneType", text |-> "None"])}
      [] k = "double_tap_ms" -> {None, Some(PyInt("300"))}
      [] k = "enable_sound" -> {None, Some(PyBool(FALSE))}
      [] k = "output_dir" -> {None, Some(PyStr("~/file"))}
EnvTexts(k) ==
    CASE k = "wayland_capture" -> {None, Some("wc-env")}
      [] k = "double_tap_ms" -> {None, Some("250"), Some(" 300 "),
                                 Some("abc")}
      [] k = "enable_sound" -> {None, Some("YES"), Some("0")}
      [] k = "output_dir" -> {None, Some("~/env")}
CliValues(k) ==
    CASE k = "wayland_capture" -> {None}
      [] k = "double_tap_ms" -> {None, Some(PyInt("100"))}
      [] k = "enable_sound" -> {None}
      [] k = "output_dir" -> {None, Some(PyStr("~/cli"))}

\* the mappings a source ("file", "env" or "cli") may hold
ConfigSources(kind) ==
    LET Values(k) == IF kind = "file" THEN FileValues(k)
                     ELSE IF kind = "env" THEN EnvTexts(k)
                     ELSE CliValues(k)
    IN  { f \in [ConfigKeys -> UNION { Values(k) : k \in ConfigKeys }] :
            \A k \in ConfigKeys : f[k] \in Values(k) }

NextConfig ==
    \E file \in ConfigSources("file"), env \in ConfigSources("env"),
       o \in ConfigSources("cli"), extra \in BOOLEAN :
          load_config_call(file, env, o, extra)

SpecConfig == Init /\ [][NextConfig]_vars

\* --------------------------------------------- the highlight among windows
\* Windows that overlap, touch at an edge and lie behind one another; from
\* the most recently focused: 22, 23, 21, 24.
\*   21: 4x4 at (0,0); 22: 2x4 at (4,0), touching the right edge of 21;
\*   23: 3x3 at (2,2), over a corner of 21 and of 22; 24: 1x1 at (1,1),
\*   inside 21.
HighlightPool ==
    << View(21, "app.ha", TRUE, FALSE, TopLevel, WorkspaceLayer,
            0, 0, 4, 4, 11, TRUE),
       View(22, "app.hb", TRUE, FALSE, TopLevel, WorkspaceLayer,
            4, 0, 2, 4, 13, TRUE),
       View(23, "app.hc", TRUE, FALSE, TopLevel, WorkspaceLayer,
            2, 2, 3, 3, 12, TRUE),
       View(24, "app.hd", TRUE, FALSE, TopLevel, WorkspaceLayer,
            1, 1, 1, 1, 10, TRUE),
       VBad >>

\* the views of the pool that a mask keeps, in the pool's order
RECURSIVE PickViews(_, _)
PickViews(mask, i) ==
    IF i > Len(HighlightPool) THEN << >>
    ELSE (IF mask[i] THEN << HighlightPool[i] >> ELSE << >>)
         \o PickViews(mask, i + 1)
HighlightLists ==
    { PickViews(mask, 1) : mask \in [1..Len(HighlightPool) -> BOOLEAN] }

\* pointer positions inside each window and in the overlaps
HighlightXs == {ToFloat(1), ToFloat(3), ToFloat(4)}
HighlightYs == {ToFloat(1), ToFloat(3)}

NextHighlight ==
    \/ \E vs \in HighlightLists :
          RunInteractive("ok", vs, Some([w |-> SnapW, h |-> SnapH]), None)
    \/ \E x \in HighlightXs, y \in HighlightYs : on_motion(x, y)
    \/ on_button_press(1)
    \/ on_button_release(1, TRUE, TRUE)
    \/ on_draw

SpecHighlight == Init /\ [][NextHighlight]_vars

\* ------------------------------------------------- redraws after each event
\* One session with a drag along the left edge: the pointer at the corner
\* and DragThreshold pixels below it.
RedrawXs == {0, ToFloat(2)}
RedrawYs == {0, ToFloat(DragThreshold)}

NextRedraw ==
    \/ \E q \in SignalQueries, snap \in SignalSnapshots :
          RunInteractive(q[1], q[2], snap, None)
    \/ \E x \in RedrawXs, y \in RedrawYs : on_motion(x, y)
    \/ \E b \in Buttons : on_button_press(b)
    \/ \E b \in Buttons : on_button_release(b, TRUE, TRUE)
    \/ \E k \in Keys : on_key_press(k, TRUE)
    \/ on_draw
    \/ MainReturns

SpecRedraw == Init /\ [][NextRedraw]_vars

\* ===================================================================
\* Properties
\* ===================================================================
\* a primary-button release that ends a drag: the only step that clears
\* self.selecting
ReleaseStep == selecting /\ ~selecting'
\* the last terminal action of the next state
LastAction == actions'[Len(actions')]
Emitted == Len(actions') = Len(actions) + 1
ThresholdUnits == DragThreshold * Scale
DeltaX == Abs(current_x - Val(start_x))
DeltaY == Abs(current_y - Val(start_y))
\* int() written out: truncation toward zero of v / Scale
Trunc(v) == IF v < 0 THEN 0 - ((0 - v) \div Scale) ELSE v \div Scale

\* C1: a primary release after a primary press whose points differ by less
\* than 5 px on both axes is a click: it captures the hovered window when
\* there is one and the whole snapshot otherwise; with 5 px or more on either
\* axis it is handled as a region drag (a region capture or nothing).
C1_ClickVsDrag ==
    [][ ReleaseStep =>
          IF DeltaX < ThresholdUnits /\ DeltaY < ThresholdUnits
          THEN /\ Emitted
               /\ IF hovered_window # None
                  THEN /\ LastAction.kind = "CaptureWindow"
                       /\ LastAction.app_id = Val(hovered_window).app_id
                  ELSE /\ LastAction.kind = "CaptureRegion"
                       /\ LastAction.x = 0
                       /\ LastAction.y = 0
                       /\ LastAction.w = img_width
                       /\ LastAction.h = img_height
          ELSE \/ actions' = actions
               \/ /\ Emitted
                  /\ LastAction.kind = "CaptureRegion"
                  /\ LastAction.by = "release_drag" ]_vars

\* C1 witness: a click on a hovered window, released half a pixel away from
\* the press point, has captured that window
C1_Witness ==
    /\ Len(actions) = 1
    /\ actions[1].kind = "CaptureWindow"
    /\ actions[1].by = "release_click"
    /\ hovered_window # None
    /\ start_y # None
    /\ Val(start_y) # current_y

\* C2 as stated: a release whose drag meets the threshold captures the region
\* x = min(sx, cx), y = min(sy, cy), w = |cx - sx|, h = |cy - sy| exactly when
\* w > 0 and h > 0, and otherwise emits nothing, saves nothing and leaves the
\* overlay open and not dragging.
C2_AsStated ==
    [][ (ReleaseStep /\ ~(DeltaX < ThresholdUnits /\ DeltaY < ThresholdUnits))
          =>
          IF DeltaX > 0 /\ DeltaY > 0
          THEN /\ Emitted
               /\ LastAction.kind = "CaptureRegion"
               /\ LastAction.x * Scale = Min(Val(start_x), current_x)
               /\ LastAction.y * Scale = Min(Val(start_y), current_y)
               /\ LastAction.w * Scale = DeltaX
               /\ LastAction.h * Scale = DeltaY
          ELSE /\ actions' = actions
               /\ save_calls' = save_calls
               /\ phase' = "main"
               /\ loop_running'
               /\ ~selecting' ]_vars

\* C2 amended: the region is x = int(min(sx, cx)), y = int(min(sy, cy)),
\* w = int(|cx - sx|), h = int(|cy - sy|) (each truncated toward zero), and it
\* is captured exactly when the truncated w and h are both > 0; otherwise
\* nothing is emitted or saved and the overlay stays open, not dragging.
C2_TruncatedRegion ==
    [][ (ReleaseStep /\ ~(DeltaX < ThresholdUnits /\ DeltaY < ThresholdUnits))
          =>
          IF Trunc(DeltaX) > 0 /\ Trunc(DeltaY) > 0
          THEN /\ Emitted
               /\ LastAction.kind = "CaptureRegion"
               /\ LastAction.x = Trunc(Min(Val(start_x), current_x))
               /\ LastAction.y = Trunc(Min(Val(start_y), current_y))
               /\ LastAction.w = Trunc(DeltaX)
               /\ LastAction.h = Trunc(DeltaY)
          ELSE /\ actions' = actions
               /\ save_calls' = save_calls
               /\ destroy_calls' = destroy_calls
               /\ phase' = "main"
               /\ loop_running'
               /\ ~selecting' ]_vars

\* C2 witness: a right-to-left drag of at least the threshold has captured a
\* region whose width is a truncated, non-integral pointer distance
C2_Witness ==
    /\ Len(actions) = 1
    /\ actions[1].by = "release_drag"
    /\ start_x # None
    /\ current_x < Val(start_x)
    /\ actions[1].w * Scale # Val(start_x) - current_x

\* C3 as stated: in one overlay session at most one terminal action is
\* executed and the output save is invoked at most once, whatever the input
\* events and fullscreen signals (two signals queued together included).
C3_AsStated ==
    /\ Len(actions) <= 1
    /\ save_calls <= 1

\* C4 as stated: once a terminal action was reached, the teardown has
\* destroyed the window and quit the event loop exactly once; a second
\* invocation performs no further destroy or quit.
C4_AsStated ==
    /\ destroy_calls <= 1
    /\ quit_calls <= 1
    /\ (Len(actions) >= 1 => destroy_calls = 1 /\ quit_calls = 1)

\* C5 as stated: whenever the overlay is open and not dragging, the hover
\* state is the hit-test result at the current pointer.
C5_AsStated ==
    (phase = "main" /\ loop_running /\ ~selecting)
        => hovered_window = find_window_at(windows, current_x, current_y)

\* C9 as stated: while the overlay runs the pointer stays inside
\* [0, snapshot width] x [0, snapshot height].
C9_AsStated ==
    phase = "main" =>
        /\ 0 <= current_x
        /\ current_x <= img_width * Scale
        /\ 0 <= current_y
        /\ current_y <= img_height * Scale

\* a queued fullscreen signal is applied: one idle callback has run
SignalApplied ==
    idle_queue' + pending_dispatch' < idle_queue + pending_dispatch
IsFullSnapshot(a) ==
    /\ a.kind = "CaptureRegion"
    /\ a.x = 0
    /\ a.y = 0
    /\ a.w = img_width
    /\ a.h = img_height

\* C10: a fullscreen signal applied in any state, mid-drag included, resolves
\* to CaptureRegion(0, 0, snapshot width, snapshot height), and once it has
\* been applied no capture of the selection rectangle follows.
C10_SignalCapturesFullSnapshot ==
    [][ /\ SignalApplied => (Emitted /\ IsFullSnapshot(LastAction))
        /\ \A i, j \in 1..Len(actions') :
              (i < j /\ actions'[i].by = "signal")
                  => IsFullSnapshot(actions'[j]) ]_vars

\* C10 witness: the signal was applied in the middle of a drag across the
\* threshold and the session resolved by it
C10_Witness ==
    /\ selecting
    /\ start_x # None
    /\ Abs(current_x - Val(start_x)) >= ThresholdUnits
    /\ current_y # Val(start_y)
    /\ Len(actions) >= 1
    /\ actions[1].by = "signal"

\* the points the hit-test is examined at: every sub-pixel position from half
\* a pixel before the canvas to a pixel after it
ProbeXs == (0 - 1) .. ((SnapW + 1) * Scale)
ProbeYs == (0 - 1) .. ((SnapH + 1) * Scale)
InBox(w, x, y) ==
    /\ w.x * Scale <= x
    /\ x < (w.x + w.width) * Scale
    /\ w.y * Scale <= y
    /\ y < (w.y + w.height) * Scale

\* C7: find_window_at returns a window whose half-open box contains the
\* point and in front of which (strictly lower z_order) no window contains
\* the point, and returns none exactly when no window contains the point.
C7_HitTest ==
    \A x \in ProbeXs, y \in ProbeYs :
        LET r == find_window_at(windows, x, y)
        IN  /\ (r = None) = (\A i \in 1..Len(windows) : ~InBox(windows[i], x, y))
            /\ r # None =>
                 /\ \E i \in 1..Len(windows) : windows[i] = Val(r)
                 /\ InBox(Val(r), x, y)
                 /\ \A i \in 1..Len(windows) :
                       ( /\ windows[i].z_order # None
                         /\ Val(r).z_order # None
                         /\ Val(windows[i].z_order) < Val(Val(r).z_order) )
                           => ~InBox(windows[i], x, y)

\* C7 witness: two overlapping windows, listed back window first, and a
\* point inside both for which the front one (z_order 0) is returned
C7_Witness ==
    /\ Len(windows) >= 2
    /\ Len(views) >= 2
    /\ views[1].id = windows[2].id
    /\ windows[1].z_order = Some(0)
    /\ \E x \in ProbeXs, y \in ProbeYs :
          /\ InBox(windows[1], x, y)
          /\ InBox(windows[2], x, y)
          /\ find_window_at(windows, x, y) = Some(windows[1])

\* position of a window's view in the compositor's list
ViewIndex(w) == CHOOSE i \in 1..Len(views) : views[i].id = w.id

\* C8 as stated: every list the registry returns carries z_order values that
\* are a dense permutation of 0..N-1, in descending focus_timestamp order
\* (most recent = 0), equal timestamps keeping their input order.
C8_AsStated ==
    phase # "start" =>
        /\ \A i \in 1..Len(windows) : windows[i].z_order # None
        /\ { Val(windows[i].z_order) : i \in 1..Len(windows) }
              = 0 .. (Len(windows) - 1)
        /\ \A i, j \in 1..Len(windows) :
              Val(windows[i].z_order) < Val(windows[j].z_order)
                 => windows[i].focus_timestamp >= windows[j].focus_timestamp
        /\ \A i, j \in 1..Len(windows) :
              ( /\ windows[i].focus_timestamp = windows[j].focus_timestamp
                /\ ViewIndex(windows[i]) < ViewIndex(windows[j]) )
                 => Val(windows[i].z_order) < Val(windows[j].z_order)

\* C6 as stated: on the 1920x1080 snapshot with the two listed windows,
\* window 2 has z_order 0 and window 1 has z_order 1, the hit-test at
\* (200, 200) returns window 2, and a click released at (200, 200) yields
\* CaptureWindow with window 2's app_id.
C6_AsStated ==
    [][ phase = "main" =>
          /\ Len(windows) = 2
          /\ windows[1].id = 2
          /\ windows[1].z_order = Some(0)
          /\ windows[2].id = 1
          /\ windows[2].z_order = Some(1)
          /\ find_window_at(windows, 200 * Scale, 200 * Scale)
                = Some(windows[1])
          /\ ( /\ ReleaseStep
               /\ current_x = 200 * Scale
               /\ current_y = 200 * Scale
               /\ DeltaX < ThresholdUnits
               /\ DeltaY < ThresholdUnits )
                => /\ Emitted
                   /\ LastAction.kind = "CaptureWindow"
                   /\ LastAction.app_id = windows[1].app_id ]_vars

\* ------------------------------------------------------ keyboard and buttons
\* C11: a Print, space or SysRq key press emits CaptureRegion(0, 0, snapshot
\* width, snapshot height) and tears the overlay down, whether or not a drag
\* is in progress.
C11_FullscreenKeys ==
    [][ \A k \in {"Print", "space", "SysRq"} :
          (\E sv \in BOOLEAN : on_key_press(k, sv))
          =>
          /\ Emitted
          /\ LastAction.kind = "CaptureRegion"
          /\ LastAction.x = 0
          /\ LastAction.y = 0
          /\ LastAction.w = img_width
          /\ LastAction.h = img_height
          /\ destroy_calls' = destroy_calls + 1
          /\ selecting' = selecting ]_vars

\* C11 witness: the key was pressed during a drag whose rectangle is not the
\* snapshot, and the whole snapshot was captured.
C11_Witness ==
    /\ Len(actions) = 1
    /\ actions[1].by = "key_fullscreen"
    /\ selecting
    /\ start_x # None
    /\ Val(start_x) # current_x
    /\ actions[1].w = img_width
    /\ actions[1].h = img_height

\* C12: a secondary-button press or an Escape key press, idle or dragging,
\* emits Cancel and tears the overlay down without calling save; a session
\* whose first terminal action is Cancel never calls save.
C12_CancelNeverSaves ==
    [][ /\ (on_button_press(3) \/ \E sv \in BOOLEAN : on_key_press("Escape", sv))
           =>
           /\ Emitted
           /\ LastAction.kind = "Cancel"
           /\ save_calls' = save_calls
           /\ destroy_calls' = destroy_calls + 1
           /\ ~window_shown'
           /\ ~loop_running'
        /\ (Len(actions') >= 1 /\ actions'[1].kind = "Cancel")
           => save_calls' = 0 ]_vars

\* C12 witness: the session was cancelled during a drag, with a fullscreen
\* request still queued, and main has returned without a save.
C12_Witness ==
    /\ phase = "returned"
    /\ Len(actions) = 1
    /\ actions[1].kind = "Cancel"
    /\ selecting
    /\ idle_queue > 0
    /\ save_calls = 0

\* C13 as stated: Enter during a drag emits CaptureRegion(min(sx,cx),
\* min(sy,cy), |cx-sx|, |cy-sy|) when both the width and the height are
\* positive, and otherwise emits nothing and stays Dragging; Enter outside a
\* drag changes nothing.
C13_AsStated ==
    [][ (\E sv \in BOOLEAN : on_key_press("Return", sv))
          =>
          IF selecting
          THEN IF DeltaX > 0 /\ DeltaY > 0
               THEN /\ Emitted
                    /\ LastAction.kind = "CaptureRegion"
                    /\ LastAction.x * Scale = Min(Val(start_x), current_x)
                    /\ LastAction.y * Scale = Min(Val(start_y), current_y)
                    /\ LastAction.w * Scale = DeltaX
                    /\ LastAction.h * Scale = DeltaY
               ELSE /\ actions' = actions
                    /\ selecting'
                    /\ start_x' = start_x
                    /\ start_y' = start_y
          ELSE UNCHANGED << session_vars, pointer_vars, selection_vars,
                            hovered_window, signal_vars, exit_vars >> ]_vars

\* C13 amended: Enter during a drag truncates the corner min(sx,cx),
\* min(sy,cy) and the extents |cx-sx|, |cy-sy| to whole pixels and emits
\* CaptureRegion of them when both truncated extents are positive; otherwise
\* it emits nothing, stays Dragging and keeps the start point.  Enter outside
\* a drag emits nothing and changes no state of the overlay.
C13_EnterTruncatedRegion ==
    [][ (\E sv \in BOOLEAN : on_key_press("Return", sv))
          =>
          IF selecting
          THEN IF Trunc(DeltaX) > 0 /\ Trunc(DeltaY) > 0
               THEN /\ Emitted
                    /\ LastAction.kind = "CaptureRegion"
                    /\ LastAction.x = Trunc(Min(Val(start_x), current_x))
                    /\ LastAction.y = Trunc(Min(Val(start_y), current_y))
                    /\ LastAction.w = Trunc(DeltaX)
                    /\ LastAction.h = Trunc(DeltaY)
                    /\ destroy_calls' = destroy_calls + 1
               ELSE /\ selecting'
                    /\ start_x' = start_x
                    /\ start_y' = start_y
                    /\ UNCHANGED << session_vars, pointer_vars,
                                    hovered_window, signal_vars, exit_vars >>
          ELSE UNCHANGED << session_vars, pointer_vars, selection_vars,
                            hovered_window, signal_vars, exit_vars >> ]_vars

\* C13 witness: Enter captured a drag made from right to left and from
\* bottom to top.
C13_Witness ==
    /\ Len(actions) = 1
    /\ actions[1].by = "key_enter"
    /\ start_x # None
    /\ current_x < Val(start_x)
    /\ current_y < Val(start_y)
    /\ actions[1].w > 0

\* C14 as stated: a primary press enters Dragging with start = pointer only
\* when the machine is not dragging; a primary press during a drag leaves the
\* recorded start point unchanged.
C14_AsStated ==
    [][ on_button_press(1)
          =>
          IF selecting
          THEN start_x' = start_x /\ start_y' = start_y /\ selecting'
          ELSE /\ selecting'
               /\ start_x' = Some(current_x)
               /\ start_y' = Some(current_y) ]_vars

\* C15 as stated: while the overlay is live the start coordinates are
\* defined exactly when the machine is Dragging.
C15_AsStated ==
    (phase = "main" /\ loop_running)
      => /\ (start_x # None) <=> selecting
         /\ (start_y # None) <=> selecting

\* ------------------------------------------------------- registry contents
\* C16 as stated: when reading a listed view raises, the registry returns
\* the empty list.
C16_AsStated ==
    (phase # "start" /\ \E i \in 1..Len(views) : ~views[i].readable)
      => windows = << >>

\* a view has every property the registry is said to require
Listable(v) ==
    /\ v.mapped
    /\ ~v.minimized
    /\ v.type = "toplevel"
    /\ v.layer = "workspace"
    /\ v.app_id # "screenshot-tool"
    /\ v.width > 0
    /\ v.height > 0
\* the view at position j was reached by the loop: no view up to it raised
ReadUpTo(j) == \A k \in 1..j : views[k].readable
Listed(v) == \E i \in 1..Len(windows) : windows[i].id = v.id

C18_StartupAborts ==
    [][ /\ phase # "raised"
        /\ (\E q \in SessionQueries, c \in CursorAnswers :
               RunInteractive(q[1], q[2], None, c))
           =>
           /\ phase' = "raised"
           /\ ~window_shown'
           /\ ~cursor_hidden'
           /\ ~loop_running'
           /\ actions' = << >>
           /\ save_calls' = 0
           /\ destroy_calls' = 0 ]_vars

\* C18 witness: the capture failed after the registry had been read.
C18_Witness ==
    /\ phase = "raised"
    /\ windows # << >>
    /\ ~cursor_hidden
    /\ ~window_shown

\* C19: a click on a hovered window whose capture_window fails emits one
\* CaptureWindow action, calls no save, leaves no exception in the handler
\* and tears the overlay down.
C19_WindowCaptureFails ==
    [][ ( /\ \E sv \in BOOLEAN : on_button_release(1, FALSE, sv)
          /\ start_x # None
          /\ start_y # None
          /\ Abs(current_x - Val(start_x)) < DragThreshold * Scale
          /\ Abs(current_y - Val(start_y)) < DragThreshold * Scale
          /\ hovered_window # None )
          =>
          /\ Emitted
          /\ LastAction.kind = "CaptureWindow"
          /\ save_calls' = save_calls
          /\ ~handler_raised'
          /\ destroy_calls' = destroy_calls + 1
          /\ quit_calls' = quit_calls + 1
          /\ ~window_shown'
          /\ ~loop_running' ]_vars

\* C19 witness: main has returned after a window capture that failed.
C19_Witness ==
    /\ phase = "returned"
    /\ Len(actions) = 1
    /\ actions[1].kind = "CaptureWindow"
    /\ save_calls = 0
    /\ destroy_calls = 1

\* C20 as stated: once run_interactive has returned, no temporary file of
\* the session is left and show_cursor was called after the last
\* hide_cursor.
C20_AsStated ==
    phase = "returned" => (temp_files = {} /\ ~cursor_hidden)

\* ------------------------------------------------------------- magnifier
\* C21 as stated: on every canvas and for every pointer position the box
\* [mag_x, mag_x + 450] x [mag_y, mag_y + 450] drawn for the magnifier lies
\* inside [0, width] x [0, height].
C21_AsStated ==
    frame # None =>
        /\ 0 <= Val(frame).mag_x
        /\ Val(frame).mag_x + 450 * Scale <= img_width * Scale
        /\ 0 <= Val(frame).mag_y
        /\ Val(frame).mag_y + 450 * Scale <= img_height * Scale

\* C22 as stated: a draw with the pointer inside the snapshot takes the
\* grid's source origin at (int(px) - 4, int(py) - 4), so the highlighted
\* centre cell shows the pixel (int(px), int(py)), also within 4 pixels of
\* the left or top edge.
C22_AsStated ==
    [][ ( /\ frame' # frame
          /\ 0 <= current_x
          /\ current_x < img_width * Scale
          /\ 0 <= current_y
          /\ current_y < img_height * Scale )
          =>
          /\ Val(frame').src_x = Trunc(current_x) - 4
          /\ Val(frame').src_y = Trunc(current_y) - 4
          /\ Val(frame').cell_x = Trunc(current_x)
          /\ Val(frame').cell_y = Trunc(current_y) ]_vars

\* ------------------------------------------------------- pointer and hover
Clamp(v, lo, hi) == IF v < lo THEN lo ELSE IF v > hi THEN hi ELSE v
OnePixel == Scale
HoverAt(x, y) ==
    IF \E i \in 1..Len(windows) :
          /\ windows[i].x * Scale <= x
          /\ x < (windows[i].x + windows[i].width) * Scale
          /\ windows[i].y * Scale <= y
          /\ y < (windows[i].y + windows[i].height) * Scale
    THEN Some(windows[CHOOSE i \in 1..Len(windows) :
                 /\ windows[i].x * Scale <= x
                 /\ x < (windows[i].x + windows[i].width) * Scale
                 /\ windows[i].y * Scale <= y
                 /\ y < (windows[i].y + windows[i].height) * Scale
                 /\ \A j \in 1..(i - 1) :
                       ~ ( /\ windows[j].x * Scale <= x
                           /\ x < (windows[j].x + windows[j].width) * Scale
                           /\ windows[j].y * Scale <= y
                           /\ y < (windows[j].y + windows[j].height) * Scale )])
    ELSE None

\* C23 as stated: an arrow key moves the pointer one pixel in its direction,
\* clamped to [0, width] x [0, height], keeps the other axis, the drag flag
\* and the start point, emits nothing, and recomputes the hovered window by
\* hit-test exactly when the machine is not dragging.
C23_AsStated ==
    [][ \A k \in {"Left", "Right", "Up", "Down"} :
          on_key_press(k, TRUE)
          =>
          /\ current_x' =
               IF k = "Left"
               THEN Clamp(current_x - OnePixel, 0, img_width * Scale)
               ELSE IF k = "Right"
               THEN Clamp(current_x + OnePixel, 0, img_width * Scale)
               ELSE current_x
          /\ current_y' =
               IF k = "Up"
               THEN Clamp(current_y - OnePixel, 0, img_height * Scale)
               ELSE IF k = "Down"
               THEN Clamp(current_y + OnePixel, 0, img_height * Scale)
               ELSE current_y
          /\ UNCHANGED << selecting, start_x, start_y, actions >>
          /\ hovered_window' = IF selecting THEN hovered_window
                               ELSE HoverAt(current_x', current_y') ]_vars

\* C24: while the machine is Dragging, no event that moves the pointer
\* (motion, arrow key) changes the hovered window.
C24_HoverFrozenWhileDragging ==
    [][ (selecting /\ << current_x, current_y >>' # << current_x, current_y >>)
          => hovered_window' = hovered_window ]_vars

\* C24 witness: mid-drag the pointer is no longer over the window that is
\* still recorded as hovered.
C24_Witness ==
    /\ Live
    /\ selecting
    /\ hovered_window # None
    /\ HoverAt(current_x, current_y) # hovered_window

\* C25: a step that renders leaves the pointer, the drag flag, the start
\* point, the hovered window, the snapshot size and the window list
\* unchanged; and after construction a step that changes the pointer, the
\* selection or the hovered window is a handler's step: it neither renders,
\* nor handles or applies a signal, nor leaves the main loop.
C25_RendererReadsOnly ==
    [][ /\ frame' # frame
           => UNCHANGED << current_x, current_y, selecting, start_x, start_y,
                           hovered_window, img_width, img_height, windows >>
        /\ ( /\ phase # "start"
             /\ << current_x, current_y, selecting, start_x, start_y,
                   hovered_window >>'
                  # << current_x, current_y, selecting, start_x, start_y,
                       hovered_window >> )
           => UNCHANGED << frame, sig_pending, signals_sent, idle_queue,
                           pending_dispatch, phase >> ]_vars

\* C25 witness: a frame that highlights the hovered window was drawn after a
\* drag, and the hovered window and the start point are still recorded.
C25_Witness ==
    /\ Live
    /\ frame # None
    /\ hovered_window # None
    /\ Val(frame).highlight = hovered_window
    /\ start_x # None

\* C26: the initial pointer is the reported cursor position when there is
\* one and it is a pixel of the snapshot, and the centre (width div 2,
\* height div 2) otherwise; construction succeeds whatever the cursor query
\* answered.
C26_InitialPointer ==
    [][ \A q \in SessionQueries, c \in CursorAnswers :
          RunInteractive(q[1], q[2], Some([w |-> SnapW, h |-> SnapH]), c)
          =>
          /\ phase' = "main"
          /\ IF /\ c # None
                /\ c[1][1] >= 0
                /\ c[1][1] < SnapW
                /\ c[1][2] >= 0
                /\ c[1][2] < SnapH
             THEN /\ current_x' = c[1][1] * Scale
                  /\ current_y' = c[1][2] * Scale
             ELSE /\ current_x' = (SnapW \div 2) * Scale
                  /\ current_y' = (SnapH \div 2) * Scale ]_vars

\* C26 witness: the overlay started at the reported position (1, 1), which
\* is not the centre.
C26_Witness ==
    /\ phase = "main"
    /\ actions = << >>
    /\ key_moves = 0
    /\ current_x = Scale
    /\ current_y = Scale
    /\ frame = None
    /\ ~selecting
    /\ start_x = None
    /\ hovered_window = None

\* C27: the arrival of the fullscreen signal and the run of its handler
\* change nothing of the overlay: the handler only queues the callback; the
\* capture is applied by a later step of the main loop that is neither a
\* render step nor an input handler's step.
C27_SignalOnlyEnqueues ==
    [][ /\ (signals_sent' # signals_sent \/ sig_pending' # sig_pending)
           => /\ UNCHANGED << current_x, current_y, selecting, start_x,
                              start_y, hovered_window, frame, phase, actions,
                              save_calls, destroy_calls, quit_calls,
                              loop_running, window_shown, temp_files >>
              /\ pending_dispatch' = pending_dispatch
              /\ idle_queue' = IF sig_pending /\ ~sig_pending'
                               THEN idle_queue + 1 ELSE idle_queue
        /\ (Len(actions') > Len(actions)
              /\ actions'[Len(actions')].by = "signal")
           => /\ idle_queue + pending_dispatch > 0
              /\ idle_queue' + pending_dispatch'
                   < idle_queue + pending_dispatch
              /\ UNCHANGED << current_x, current_y, selecting, start_x,
                              start_y, hovered_window, frame, sig_pending,
                              signals_sent >> ]_vars

\* C27 witness: mid-drag, after a redraw, the callback is queued and nothing
\* has been captured yet.
C27_Witness ==
    /\ Live
    /\ idle_queue = 1
    /\ ~sig_pending
    /\ selecting
    /\ frame # None
    /\ actions = << >>

\* ------------------------------------------------------ instances and taps
\* C28 as stated: at most one process at a time has had acquire_lock return
\* True and has not yet called release_lock.
C28_AsStated ==
    Cardinality({ p \in Procs : lpc[p] = "holding" }) <= 1

\* C29 as stated: once the SIGUSR1 of a second invocation has been sent to
\* the instance that holds the lock, the instance does not end otherwise
\* than by returning from the overlay with exactly one capture of the whole
\* snapshot, at whatever point of its lifetime the signal arrived.
C29_AsStated ==
    (signals_sent >= 1 /\ phase \in {"returned", "raised", "killed"})
      => /\ phase = "returned"
         /\ Len(actions) = 1
         /\ actions[1].kind = "CaptureRegion"
         /\ actions[1].x = 0
         /\ actions[1].y = 0
         /\ actions[1].w = img_width
         /\ actions[1].h = img_height

C33_AsStated ==
    [][ (~selecting /\ \E ok \in BOOLEAN, sv \in BOOLEAN :
                            on_button_release(1, ok, sv))
          => /\ actions' = actions
             /\ save_calls' = save_calls
             /\ ~handler_raised'
             /\ UNCHANGED << pointer_vars, selection_vars, hovered_window >>
      ]_vars

\* C34 as stated: every CaptureRegion rectangle handed to the crop step lies
\* inside the snapshot with positive width and height.
C34_AsStated ==
    \A i \in 1..Len(actions) :
        actions[i].kind = "CaptureRegion"
            => /\ 0 <= actions[i].x
               /\ 0 <= actions[i].y
               /\ actions[i].w > 0
               /\ actions[i].h > 0
               /\ actions[i].x + actions[i].w <= img_width
               /\ actions[i].y + actions[i].h <= img_height

\* ------------------------------------------------------- CLI capture paths
\* C31 as stated: a capture function that fails raises CaptureError and
\* nothing else, and the CLI path that called it returns exit code 1.
C31_AsStated ==
    (last_capture # None /\ Val(last_capture).raised # "none")
        => /\ Val(last_capture).raised = "CaptureError"
           /\ Val(cli_exit).code = "1"

\* C37 as stated: every operation.started event is followed by exactly one
\* operation.completed event with the same operation id once the path that
\* emitted it has ended, whatever the capture and the save did.
C37_AsStated ==
    \A i \in 1..Len(events) :
        events[i].type = "operation.started"
            => Cardinality({ j \in (i + 1)..Len(events) :
                               /\ events[j].type = "operation.completed"
                               /\ events[j].id = events[i].id }) = 1

\* C38 as stated: when fullscreen(), region() or window() exits by raising,
\* its temporary file is gone.
C38_AsStated ==
    (last_capture # None /\ Val(last_capture).raised # "none")
        => ~Val(last_capture).temp

\* ------------------------------------------------- configuration priority
\* the sources of the last call, from the highest priority down, and what
\* each holds for key k
CallOf == Val(config_call)
Resolved(k) == CallOf.result.values[k]

\* C32 as stated: every key is resolved from the highest-priority source
\* that sets it: CLI override, then environment variable, then config file,
\* then built-in default.
C32_AsStated ==
    (config_call # None /\ CallOf.result.raised = "none")
        => \A k \in ConfigKeys :
              Resolved(k).source =
                  IF CallOf.overrides[k] # None THEN "cli"
                  ELSE IF CallOf.env[k] # None THEN "env"
                  ELSE IF CallOf.file[k] # None THEN "file"
                  ELSE "default"

\* the value an environment variable's text stands for, None when it is not
\* usable: an integer key needs text that int() accepts
UsableEnv(k, text) ==
    IF text = None THEN None
    ELSE IF k = "double_tap_ms"
    THEN IF Val(text) \in {"250", " 300 "}
         THEN Some(PyInt(IF Val(text) = "250" THEN "250" ELSE "300"))
         ELSE None
    ELSE IF k = "enable_sound"
    THEN Some(PyBool(Val(text) \in {"YES", "true", "1", "yes", "on"}))
    ELSE Some(PyStr(Val(text)))
\* ~ is expanded in the values of path keys, whatever their source
Normal(k, v) ==
    IF k = "output_dir" /\ v.type = "str" /\ v.text \in {"~/file", "~/env", "~/cli"}
    THEN PyStr(CASE v.text = "~/file" -> "/home/user/file"
                 [] v.text = "~/env" -> "/home/user/env"
                 [] v.text = "~/cli" -> "/home/user/cli")
    ELSE v

\* C32: whenever load_config returns, every key holds the value of the
\* highest-priority source with a usable value for it, in the order CLI
\* override, environment variable, config file, built-in default; an
\* environment variable whose text is not an integer does not count for an
\* integer key.
C32_Priority ==
    (config_call # None /\ CallOf.result.raised = "none")
        => \A k \in ConfigKeys :
              LET e == UsableEnv(k, CallOf.env[k])
                  src == IF CallOf.overrides[k] # None THEN "cli"
                         ELSE IF e # None THEN "env"
                         ELSE IF CallOf.file[k] # None THEN "file"
                         ELSE "default"
                  v == CASE src = "cli" -> Val(CallOf.overrides[k])
                         [] src = "env" -> Val(e)
                         [] src = "file" -> Val(CallOf.file[k])
                         [] OTHER -> config_defaults[k]
              IN  /\ Resolved(k).source = src
                  /\ Resolved(k).value = Normal(k, v)

\* C32 witness: a call in which the file and the environment both set a key
\* and the environment wins, and in which an integer key with unparsable
\* environment text falls through to the file.
C32_Witness ==
    /\ config_call # None
    /\ CallOf.result.raised = "none"
    /\ CallOf.env["double_tap_ms"] = Some("abc")
    /\ CallOf.file["double_tap_ms"] = Some(PyInt("300"))
    /\ CallOf.overrides["double_tap_ms"] = None
    /\ Resolved("double_tap_ms").value = PyInt("300")
    /\ CallOf.env["wayland_capture"] = Some("wc-env")
    /\ CallOf.file["wayland_capture"] = Some(PyStr("wc-file"))
    /\ CallOf.overrides["wayland_capture"] = None
    /\ Resolved("wayland_capture").value = PyStr("wc-env")

\* -------------------------------------------------------- window highlight
\* pixel (px, py) of the snapshot lies in window w
PixelIn(w, px, py) ==
    /\ w.x <= px
    /\ px < w.x + w.width
    /\ w.y <= py
    /\ py < w.y + w.height
PixelRange == 0..(SnapW + 2)
\* the place of w in z-order: its position in the focus-sorted list, and
\* the placeholder 999 when the list was never sorted
Depth(w) == IF w.z_order = None THEN 999 ELSE Val(w.z_order)

\* C35: a draw highlights the hovered window exactly when the overlay is not
\* dragging and a window is hovered, and paints the selection exactly when
\* it is dragging; with a highlight, the windows painted back over the tint
\* are exactly the other windows strictly in front of the hovered one that
\* share at least one pixel with it: no window behind it and no front window
\* that only touches its edge.
C35_HighlightRepaint ==
    [][ on_draw =>
          LET f == Val(frame')
          IN  /\ (f.highlight # None) <=> (~selecting /\ hovered_window # None)
              /\ (f.selection # None) <=> selecting
              /\ f.highlight = None => f.repainted = {}
              /\ f.highlight # None =>
                   /\ f.highlight = hovered_window
                   /\ \A i \in 1..Len(windows) :
                        windows[i].id \in f.repainted
                          <=> /\ windows[i].id # Val(hovered_window).id
                              /\ Depth(windows[i]) < Depth(Val(hovered_window))
                              /\ \E px \in PixelRange, py \in PixelRange :
                                    /\ PixelIn(windows[i], px, py)
                                    /\ PixelIn(Val(hovered_window), px, py)
      ]_vars

\* C35 witness: window 21 is highlighted with 22 (in front, edge to edge),
\* 23 (in front, overlapping) and 24 (behind, inside 21) on screen, and
\* only 23 was painted back.
C35_Witness ==
    /\ Live
    /\ frame # None
    /\ Len(windows) = 4
    /\ Val(frame).highlight # None
    /\ Val(Val(frame).highlight).id = 21
    /\ Val(frame).repainted = {23}

\* ------------------------------------------------------------- stale locks
\* a live process that holds the flock of inode i
LiveHolder(q, i) == lpc[q] \in {"locked", "holding"} /\ lfd[q] = i

\* C39: when acquire_lock tries the flock on the file it opened and no live
\* process holds that file's lock, the flock succeeds, whatever pid a dead
\* instance left in the file; writing the pid then completes the
\* acquisition.
C39_StaleLockNeverBlocks ==
    [][ \A p \in Procs :
          /\ ( /\ lock_flock(p)
               /\ ~ \E q \in Procs \ {p} : LiveHolder(q, lfd[p]) )
                => lpc'[p] = "locked"
          /\ lock_write_pid(p) => lpc'[p] = "holding"
      ]_vars

\* C39 witness: an instance wrote its pid and was killed; the file is still
\* in place with that pid, and a later invocation holds its flock.
C39_Witness ==
    \E p \in Procs, q \in Procs :
        /\ p # q
        /\ lpc[q] = "dead"
        /\ lpc[p] = "locked"
        /\ lock_path = lfd[p]
        /\ file_pid[lfd[p]] = q

\* ------------------------------------------------------------------ redraws
\* C36 as stated: every handler step that leaves the overlay open and
\* changes the pointer, the selection or the hovered window requests a
\* redraw, so that a frame drawn with no redraw pending shows the current
\* state.
C36_AsStated ==
    [][ ( /\ Live
          /\ Live'
          /\ frame' = frame
          /\ << pointer_vars, selection_vars, hovered_window >>'
               # << pointer_vars, selection_vars, hovered_window >> )
          => redraw_queued' ]_vars

====
